---- MODULE Spec2Model ----
(***************************************************************************)
(* Verification model of dracula (github.com/mailsac/dracula): the         *)
(* expiring counting store (store/store.go, store/tree/tree.go), the       *)
(* server worker and its replication (server/server.go) and the packet     *)
(* codec (protocol/protocol.go).                                           *)
(*                                                                         *)
(* Every critical section of the Go code (the span between Lock() and      *)
(* Unlock() of the store mutex or of a tree mutex) is one atomic step of   *)
(* the thread that executes it; everything between two critical sections   *)
(* is a position of that thread (field pc).                                *)
(***************************************************************************)
EXTENDS Integers, Sequences, FiniteSets, TLC

\* ---------------------------------------------------------------- bounds
NumServers == 2
NumWorkers == 2
NumNamespaces == 2
NumKeys == 2
NumConcKeys == 1
MaxTime == 2
MaxRequests == 3
MaxSeqRequests == 3
MaxCleanups == 1
MaxClientPuts == 2
NumCallers == 1
NumPoolServers == 2
MaxOperations == 1
MaxRounds == 2
TimeoutSecs == 1
NumAllocators == 3
MaxAllocations == 3
NumCacheIds == 2
NumCallbacks == 2
MaxMatchPuts == 3

\* ------------------------------------------------------ program constants
maxNamespacesDenom == 2
MinimumExpirySecs == 2

\* the TTL every server of the model is constructed with (NewServer panics
\* below MinimumExpirySecs)
expireAfterSecs == MinimumExpirySecs

Servers == 1..NumServers
Threads == Servers \X (1..NumWorkers)
Namespaces == 1..NumNamespaces
Keys == 1..NumKeys

VARIABLES
    now,          \* time.Now().Unix() as every thread reads it
    namespaces,   \* Store.namespaces of each server: namespace -> *tree.Tree
    trees,        \* the heap of tree.Tree objects of each server: pointer -> (key -> []int64)
    wk,           \* the worker goroutines: position and locals
    gc,           \* the runCleanup goroutine of each store: position and locals
    peers,        \* Server.peers of each server
    net,          \* datagrams in flight to servers
    cl,           \* one Client: waiting callbacks, message ids, server pool
    udp,          \* one UDP frame on its way: datagram, read buffer, reply, client result
    hist          \* history: requests issued/acknowledged, replication messages sent

vars == <<now, namespaces, trees, wk, gc, peers, net, cl, udp, hist>>

\* ------------------------------------------------------------ map helpers
MapPut(m, k, v) == [x \in DOMAIN m \cup {k} |-> IF x = k THEN v ELSE m[x]]
MapRemove(m, k) == [x \in DOMAIN m \ {k} |-> m[x]]
EmptyMap == [x \in {} |-> 0]

Min(S) == CHOOSE x \in S : \A y \in S : x <= y

RECURSIVE SortedKeys(_)
\* redblacktree.Keys(): the keys in comparator (ascending) order
SortedKeys(S) == IF S = {} THEN <<>> ELSE <<Min(S)>> \o SortedKeys(S \ {Min(S)})

\* hashmap.Keys(): the keys in an arbitrary order
Orderings(S) == {q \in [1..Cardinality(S) -> S] : \A x \in S : \E i \in DOMAIN q : q[i] = x}

SeqToSet(q) == {q[i] : i \in DOMAIN q}

RECURSIVE SumOver(_, _)
SumOver(f, S) == IF S = {} THEN 0
                 ELSE LET x == CHOOSE y \in S : TRUE IN f[x] + SumOver(f, S \ {x})

\* ------------------------------------------------------------- tree.Tree
NewTree == EmptyMap

removeExpiredKeepsEqual(datesSecs, currentTime) ==
    SelectSeq(datesSecs, LAMBDA removeAt : removeAt >= currentTime)

removeExpired(datesSecs, currentTime) ==
    SelectSeq(datesSecs, LAMBDA removeAt : removeAt > currentTime)

\* returns the tree after the cleanup of an empty entry, and the list (isNil
\* when the Go function returns nil)
getAndCleanupUnsafe(tr, entryKey) ==
    IF entryKey \notin DOMAIN tr
    THEN [tree |-> tr, isNil |-> TRUE, dates |-> <<>>]
    ELSE IF Len(tr[entryKey]) = 0
         THEN [tree |-> MapRemove(tr, entryKey), isNil |-> TRUE, dates |-> <<>>]
         ELSE [tree |-> tr, isNil |-> FALSE, dates |-> tr[entryKey]]

\* Tree.Count under the tree mutex, reading the clock at second t
TreeCount(tr, entryKey, t) ==
    LET g == getAndCleanupUnsafe(tr, entryKey) IN
    IF g.isNil THEN [tree |-> g.tree, count |-> 0]
    ELSE IF Len(g.dates) = 0
         THEN [tree |-> MapRemove(g.tree, entryKey), count |-> 0]
         ELSE LET d == removeExpired(g.dates, t)
              IN [tree |-> MapPut(g.tree, entryKey, d), count |-> Len(d)]

TreePutNoAppend(tr, entryKey, t1, t2) ==
    LET g == getAndCleanupUnsafe(tr, entryKey)
        d0 == IF g.isNil THEN <<>> ELSE g.dates
    IN MapPut(g.tree, entryKey, <<t2 + expireAfterSecs>>)

\* Tree.Put under the tree mutex: removeExpired reads the clock at t1, the
\* new occurrence is stamped from a second read of the clock, t2
TreePut(tr, entryKey, t1, t2) ==
    LET g == getAndCleanupUnsafe(tr, entryKey)
        d0 == IF g.isNil THEN <<>> ELSE g.dates
        d == removeExpired(d0, t1)
    IN MapPut(g.tree, entryKey, Append(d, t2 + expireAfterSecs))


\* --------------------------------------------------------- thread records
NoReq == [cmd |-> "-", ns |-> 0, key |-> 0, at |-> 0]

\* a worker between two messages
IdleWorker(prev) ==
    [pc |-> "idle", cmd |-> "-", id |-> 0, ns |-> 0, key |-> 0, subtree |-> 0,
     keysI |-> <<>>, outKeys |-> <<>>, outCount |-> 0, spaces |-> <<>>,
     entryCount |-> 0, result |-> 0, at |-> 0, prev |-> prev]

\* the cleanup goroutine waiting for its timer
IdleCleanup ==
    [pc |-> "idle", cleanupServiceEnabled |-> TRUE, keys |-> <<>>,
     subtrees |-> EmptyMap, ns |-> 0, subtree |-> 0, keysI |-> <<>>, outKeys |-> <<>>]

PairMap(v) == [n \in Namespaces |-> [k \in Keys |-> v]]

InitHist ==
    [n |-> PairMap(0), first |-> PairMap(-1), last |-> PairMap(-1),
     writers |-> [n \in Namespaces |-> {}],
     reqs |-> 0, cleanups |-> 0, sent |-> 0, repl |-> 0, replies |-> 0,
     applied |-> [s \in Servers |-> 0],
     snapshot |-> <<>>, swept |-> {}, removed |-> {}]

\* NewServerWithPeers: the peers of the list other than self
NewServerWithPeers(selfPeerHostPort, peerStringList) ==
    {p \in peerStringList : p # selfPeerHostPort}

\* a uint32 is kept as its two base-65536 digits, so that the whole range up
\* to 2^32 - 1 is represented
Uint32(n) == [lo |-> n % 65536, hi |-> (n \div 65536) % 65536]

MaxUint32 == [lo |-> 65535, hi |-> 65535]

\* binary.LittleEndian
Uint32FromBytes(fourBytes) ==
    [lo |-> fourBytes[1] + 256 * fourBytes[2],
     hi |-> fourBytes[3] + 256 * fourBytes[4]]

Uint32ToBytes(u) ==
    <<u.lo % 256, u.lo \div 256, u.hi % 256, u.hi \div 256>>

\* atomic.AddUint32 that stops at the largest value instead of wrapping
AddUint32Saturating(u, delta) ==
    IF u = MaxUint32 THEN u
    ELSE LET lo == u.lo + delta
         IN  [lo |-> lo % 65536, hi |-> (u.hi + lo \div 65536) % 65536]

\* atomic.AddUint32: the sum modulo 2^32
AddUint32(u, delta) ==
    LET lo == u.lo + delta
    IN  [lo |-> lo % 65536, hi |-> (u.hi + lo \div 65536) % 65536]

\* ------------------------------------------------------------ the client
\* the goroutines that use one Client: goroutine 0 runs Listen and then the
\* pool's health-check loop, the others are callers of Put, Count, ...
Callers == 1..NumCallers
Goroutines == {0} \cup Callers
PoolServers == 1..NumPoolServers

\* no operation of the goroutine is in progress
IdleOp ==
    [pc |-> "idle",
     n |-> 0,                 \* operations the goroutine has started
     id |-> Uint32(0),        \* Uint32FromBytes of the makeMessageID result
     to |-> 0,                \* remoteServer
     probe |-> FALSE,         \* the operation is Healthcheck
     chosenFrom |-> {},       \* Pool.healthy when the server was taken
     registered |-> FALSE,    \* messagesWaiting.Add returned nil
     written |-> FALSE,       \* a datagram was written
     CreatedSecs |-> 0,       \* time of that Add
     called |-> FALSE,        \* the callback ran (wg.Done)
     err |-> ""]              \* the err the callback stored

\* NewPool: servers configured, both lists nil
NewPool ==
    [pc |-> "new",
     round |-> 0,
     i |-> 0,                 \* index into servers of the loop of healthcheck
     healthy |-> <<>>,        \* the locals of healthcheck
     unhealthy |-> <<>>,
     answers |-> {}]          \* replies to this round's probes, as handled

\* NewClient with NewCache and NewPool
NewClient ==
    [messageIDCounter |-> Uint32(0),    \* Client.messageIDCounter
     cache |-> EmptyMap,                \* ResponseCache.cache
     removeTheseKeys |-> <<>>,          \* checkCleanup holds the lock for these
     op |-> [g \in Goroutines |-> IdleOp],
     sent |-> {},                       \* datagrams written, not yet answered
     replies |-> {},                    \* replies on their way to Client.conn
     healthy |-> <<>>,                  \* Pool.healthy
     unhealthy |-> <<>>,                \* Pool.unhealthy
     pool |-> NewPool,
     first |-> Uint32(0),               \* the counter before the first allocation
     allocated |-> <<>>,                \* every id allocated, in order
     made |-> [a \in 1..NumAllocators |-> 0],   \* allocations of each caller
     last |-> [op |-> "-"],             \* the last call on the cache and its result
     disposed |-> FALSE,                \* ResponseCache.disposed
     closed |-> FALSE,                  \* TimedOutMessages has been closed
     sending |-> 0,                     \* the callback checkCleanup is sending
     timedOutCallback |-> 0,            \* the callback handleTimeouts is running
     faults |-> {}]

\* NewStore for every server, no request received yet; standalone servers
\* (NewServer) have no peers
\* err == nil
NoErr == <<>>

NoCall == [op |-> "-", ns |-> <<>>, key |-> <<>>]

IdleFrame(preSharedKey) ==
    [phase |-> "idle",
     preSharedKey |-> preSharedKey,     \* Server.preSharedKey
     sender |-> "-",
     cmd |-> 0,
     id |-> <<>>,                       \* the message id, namespace and value
     ns |-> <<>>,                       \* the sender built its packet from
     value |-> <<>>,
     clientKey |-> <<>>,                \* Client.preSharedKey
     messageIDCounter |-> Uint32(0),    \* Client.messageIDCounter
     messagesWaiting |-> {},            \* Client.messagesWaiting
     datagram |-> <<>>,
     message |-> <<>>,                  \* RawMessage.Message
     tcp |-> FALSE,                     \* RawMessage.MaybeTcpClient # nil
     via |-> "-",                       \* the transport the reply was written to
     call |-> NoCall,                   \* the store call the worker made
     reply |-> <<>>,
     cbCalled |-> FALSE,
     cbErr |-> NoErr,
     cbData |-> <<>>]

\* no frame on the way, and none to come
NoFrame == [IdleFrame(<<>>) EXCEPT !.phase = "off"]

Init ==
    /\ now = 0
    /\ namespaces = [s \in Servers |-> EmptyMap]
    /\ trees = [s \in Servers |-> EmptyMap]
    /\ wk = [t \in Threads |-> IdleWorker(NoReq)]
    /\ gc = [s \in Servers |-> IdleCleanup]
    /\ peers = [s \in Servers |-> {}]
    /\ net = {}
    /\ cl = NewClient
    /\ udp = NoFrame
    /\ hist = InitHist

\* ------------------------------------------------------ Store.Put (worker)
Srv(t) == t[1]

\* server.go 193-228: an idle worker takes a valid frame from the channel and
\* dispatches on its command
Take(t, cmd, id, ns, key) ==
    [wk[t] EXCEPT !.cmd = cmd, !.id = id, !.ns = ns, !.key = key, !.at = now]

\* server.go 231/234 into store.go 173-175 and, when the namespace is found, 182
Put_get(t, cmd, id, ns, key) ==
    LET s == Srv(t) w == Take(t, cmd, id, ns, key) IN
    /\ wk[t].pc = "idle"
    /\ IF ns \in DOMAIN namespaces[s]
       THEN wk' = [wk EXCEPT ![t] = [w EXCEPT !.subtree = namespaces[s][ns],
                                              !.pc = "Put_tree"]]
       ELSE wk' = [wk EXCEPT ![t] = [w EXCEPT !.pc = "Put_insert"]]
    /\ UNCHANGED <<cl, udp, now, namespaces, trees, gc, peers>>

\* store.go 177-180: a new tree is stored under ns whatever the map holds by now
Put_insert(t) ==
    LET s == Srv(t) w == wk[t]
        ptr == Cardinality(DOMAIN trees[s]) + 1
    IN
    /\ w.pc = "Put_insert"
    /\ trees' = [trees EXCEPT ![s] = MapPut(@, ptr, NewTree)]
    /\ namespaces' = [namespaces EXCEPT ![s] = MapPut(@, w.ns, ptr)]
    /\ wk' = [wk EXCEPT ![t].subtree = ptr, ![t].pc = "Put_tree"]
    /\ UNCHANGED <<cl, udp, now, gc, peers, net, hist>>

AfterStorePutAlwaysReplies(w, at) == [w EXCEPT !.at = at, !.pc = "respond"]

\* server.go 229-236: after store.Put a PUT is answered; a PUT-REPLICATE is
\* neither answered nor republished
AfterStorePut(w, at) ==
    IF w.cmd = "R" THEN IdleWorker(w.prev) ELSE [w EXCEPT !.at = at, !.pc = "respond"]

\* store.go 185 = tree.go 113-125; the clock may advance between the two
\* reads of time.Now() (d = 1)
Put_tree(t) ==
    LET s == Srv(t) w == wk[t] IN
    /\ w.pc = "Put_tree"
    /\ \E d \in {0, 1} :
        /\ now + d <= MaxTime
        /\ now' = now + d
        /\ trees' = [trees EXCEPT ![s][w.subtree] = TreePut(@, w.key, now, now + d)]
        /\ hist' = [hist EXCEPT
                      !.first[w.ns][w.key] = IF @ = -1 THEN now + d ELSE @,
                      !.last[w.ns][w.key] = now + d,
                      !.applied[s] = @ + 1]
        /\ wk' = [wk EXCEPT ![t] = AfterStorePut(w, now + d)]
    /\ UNCHANGED <<cl, udp, namespaces, gc, peers, net>>

\* ---------------------------------------------------- Store.Count (worker)
\* server.go 243 into store.go 189-194
Count_get(t, ns, key) ==
    LET s == Srv(t) w == Take(t, "C", 0, ns, key) IN
    /\ wk[t].pc = "idle"
    /\ IF ns \in DOMAIN namespaces[s]
       THEN wk' = [wk EXCEPT ![t] = [w EXCEPT !.subtree = namespaces[s][ns],
                                              !.pc = "Count_tree"]]
       ELSE wk' = [wk EXCEPT ![t] = [w EXCEPT !.result = 0, !.pc = "respond"]]
    /\ UNCHANGED <<cl, udp, now, namespaces, trees, gc, peers, net>>

\* store.go 197 = tree.go 59-77
Count_tree(t) ==
    LET s == Srv(t) w == wk[t]
        r == TreeCount(trees[s][w.subtree], w.key, now)
    IN
    /\ w.pc = "Count_tree"
    /\ trees' = [trees EXCEPT ![s][w.subtree] = r.tree]
    /\ wk' = [wk EXCEPT ![t].result = r.count, ![t].at = now, ![t].pc = "respond"]
    /\ UNCHANGED <<cl, udp, now, namespaces, gc, peers, net, hist>>


\* ------------------------------------- Store.CountEntries, Tree.Keys (worker)
\* a CountServerEntries that returns the count of its last namespace only
ReturnCountEntriesLast(w, c) ==
    IF w.cmd = "N"
    THEN [w EXCEPT !.result = c, !.pc = "respond"]
    ELSE IF w.spaces = <<>>
         THEN [w EXCEPT !.result = c, !.entryCount = c, !.pc = "respond"]
         ELSE [w EXCEPT !.entryCount = c, !.ns = Head(w.spaces),
                        !.spaces = Tail(w.spaces), !.subtree = 0, !.keysI = <<>>,
                        !.pc = "CountEntries_get"]

\* CountEntries returns c to its caller: the worker (COUNT-NAMESPACE), or the
\* loop of CountServerEntries (store.go 237-241), which goes on with the next
\* namespace of its snapshot or returns the sum
ReturnCountEntries(w, c) ==
    IF w.cmd = "N"
    THEN [w EXCEPT !.result = c, !.pc = "respond"]
    ELSE IF w.spaces = <<>>
         THEN [w EXCEPT !.result = w.entryCount + c, !.entryCount = w.entryCount + c,
                        !.pc = "respond"]
         ELSE [w EXCEPT !.entryCount = w.entryCount + c, !.ns = Head(w.spaces),
                        !.spaces = Tail(w.spaces), !.subtree = 0, !.keysI = <<>>,
                        !.pc = "CountEntries_get"]

\* store.go 203-208
CountEntriesGet(s, w) ==
    IF w.ns \in DOMAIN namespaces[s]
    THEN [w EXCEPT !.subtree = namespaces[s][w.ns], !.pc = "Keys_lock"]
    ELSE ReturnCountEntries(w, 0)

\* server.go 252 into store.go 203-208
CountNamespace_get(t, ns) ==
    /\ wk[t].pc = "idle"
    /\ wk' = [wk EXCEPT ![t] = CountEntriesGet(Srv(t), Take(t, "N", 0, ns, 0))]
    /\ UNCHANGED <<cl, udp, now, namespaces, trees, gc, peers, net>>

\* store.go 238 into 203-208: CountEntries called by CountServerEntries
CountEntries_get(t) ==
    /\ wk[t].pc = "CountEntries_get"
    /\ wk' = [wk EXCEPT ![t] = CountEntriesGet(Srv(t), wk[t])]
    /\ UNCHANGED <<cl, udp, now, namespaces, trees, gc, peers, net, hist>>

\* tree.go 34-40: the key list is copied under the lock, which is then released
Keys_lock(t) ==
    LET s == Srv(t) w == wk[t]
        keysI == SortedKeys(DOMAIN trees[s][w.subtree])
    IN
    /\ w.pc = "Keys_lock"
    /\ IF keysI = <<>>
       THEN wk' = [wk EXCEPT ![t] = ReturnCountEntries([w EXCEPT !.outKeys = <<>>], 0)]
       ELSE wk' = [wk EXCEPT ![t].keysI = keysI, ![t].outKeys = <<>>,
                             ![t].outCount = 0, ![t].pc = "Keys_loop"]
    /\ UNCHANGED <<cl, udp, now, namespaces, trees, gc, peers, net, hist>>

\* tree.go 44-52: one iteration, n.Count(key) under the tree lock
Keys_loop(t) ==
    LET s == Srv(t) w == wk[t]
        key == Head(w.keysI)
        r == TreeCount(trees[s][w.subtree], key, now)
        outKeys == IF r.count = 0 THEN w.outKeys ELSE Append(w.outKeys, key)
        outCount == w.outCount + r.count
    IN
    /\ w.pc = "Keys_loop"
    /\ trees' = [trees EXCEPT ![s][w.subtree] = r.tree]
    /\ IF Tail(w.keysI) = <<>>
       THEN wk' = [wk EXCEPT ![t] =
                     ReturnCountEntries([w EXCEPT !.keysI = <<>>, !.outKeys = outKeys,
                                                  !.outCount = 0], outCount)]
       ELSE wk' = [wk EXCEPT ![t].keysI = Tail(w.keysI), ![t].outKeys = outKeys,
                             ![t].outCount = outCount]
    /\ UNCHANGED <<cl, udp, now, namespaces, gc, peers, net, hist>>

\* server.go 261 into store.go 232-236: the snapshot of the namespace names,
\* in map order
CountServer_snap(t) ==
    LET s == Srv(t) w == Take(t, "S", 0, 0, 0) IN
    /\ wk[t].pc = "idle"
    /\ \E spaces \in Orderings(DOMAIN namespaces[s]) :
        wk' = [wk EXCEPT ![t] =
                 IF spaces = <<>>
                 THEN [w EXCEPT !.result = 0, !.pc = "respond"]
                 ELSE [w EXCEPT !.ns = Head(spaces), !.spaces = Tail(spaces),
                                !.entryCount = 0, !.pc = "CountEntries_get"]]
    /\ UNCHANGED <<cl, udp, now, namespaces, trees, gc, peers, net>>

\* ------------------------------------------------------- the worker's reply
\* server.go 235-240, 248-249, 257-258, 266-267: the reply is written; after
\* a PUT the packet is republished when the server has peers
Respond(t) ==
    LET s == Srv(t) w == wk[t]
        done == IF w.cmd = "P"
                THEN [cmd |-> w.cmd, ns |-> w.ns, key |-> w.key, at |-> w.at]
                ELSE NoReq
    IN
    /\ w.pc = "respond"
    /\ hist' = [hist EXCEPT
                  !.n = IF w.cmd = "P" THEN [@ EXCEPT ![w.ns][w.key] = @ + 1] ELSE @,
                  !.replies = @ + 1]
    /\ wk' = IF w.cmd = "P" /\ peers[s] # {}
             THEN [wk EXCEPT ![t].pc = "republish"]
             ELSE [wk EXCEPT ![t] = IdleWorker(done)]
    /\ UNCHANGED <<cl, udp, now, namespaces, trees, gc, peers, net>>

\* ----------------------------------------------------- the requests (store)
\* a client request (among at most budget, on the keys 1..numKeys) reaches a
\* worker of the standalone server
RequestWithin(t, budget, numKeys) ==
    /\ hist.reqs < budget
    /\ \/ \E ns \in Namespaces, key \in 1..numKeys :
            /\ Put_get(t, "P", 0, ns, key)
            /\ hist' = [hist EXCEPT !.reqs = @ + 1, !.writers[ns] = @ \cup {t}]
            /\ UNCHANGED net
       \/ /\ \/ \E ns \in Namespaces, key \in 1..numKeys : Count_get(t, ns, key)
             \/ \E ns \in Namespaces : CountNamespace_get(t, ns)
             \/ CountServer_snap(t)
          /\ hist' = [hist EXCEPT !.reqs = @ + 1]

Request(t) == RequestWithin(t, MaxRequests, NumConcKeys)

\* the wall clock advances by one second
Tick ==
    /\ now < MaxTime
    /\ now' = now + 1
    /\ UNCHANGED <<cl, udp, namespaces, trees, wk, gc, peers, net, hist>>


\* ------------------------------------------------------- Store.runCleanup
\* store.go 110-120: the timer fires; the namespace names are copied, in map
\* order, under the store lock
runCleanup_Keys(s, keys) ==
    /\ gc[s].pc = "idle"
    /\ gc[s].cleanupServiceEnabled
    /\ keys \in Orderings(DOMAIN namespaces[s])
    /\ gc' = [gc EXCEPT ![s].keys = keys, ![s].pc = "fetch"]
    /\ hist' = [hist EXCEPT !.cleanups = Min({@ + 1, MaxCleanups}),
                            !.snapshot = keys, !.swept = {}, !.removed = {}]
    /\ UNCHANGED <<cl, udp, now, namespaces, trees, wk, peers, net>>

\* one of the first MaxCleanups passes starts
Cleanup_start(s) ==
    /\ hist.cleanups < MaxCleanups
    /\ \E keys \in Orderings(DOMAIN namespaces[s]) : runCleanup_Keys(s, keys)

\* hashSize / maxNamespacesDenom (store.go 122-123)
maxNamespacesAll(hashSize) == hashSize

maxNamespaces(hashSize) == hashSize \div maxNamespacesDenom

\* store.go 130-146: the pointers to the first maxNamespaces subtrees are
\* fetched under the store lock
Cleanup_fetch(s) ==
    LET g == gc[s]
        picked == {g.keys[i] : i \in 1..maxNamespaces(Len(g.keys))}
                  \cap DOMAIN namespaces[s]
        subtrees == [ns \in picked |-> namespaces[s][ns]]
    IN
    /\ g.pc = "fetch"
    /\ gc' = [gc EXCEPT ![s] = IF picked = {} THEN IdleCleanup
                               ELSE [g EXCEPT !.keys = <<>>, !.subtrees = subtrees,
                                              !.pc = "range"]]
    /\ UNCHANGED <<cl, udp, now, namespaces, trees, wk, peers, net, hist>>

\* the loop of store.go 152 goes on with another subtree, or the pass ends
\* (the deferred time.AfterFunc rearms the timer)
NextSubtree(g) ==
    IF DOMAIN g.subtrees = {} THEN IdleCleanup
    ELSE [g EXCEPT !.ns = 0, !.subtree = 0, !.keysI = <<>>, !.outKeys = <<>>,
                   !.pc = "range"]

\* store.go 152-154 with tree.go 34-40: the next subtree of the map range (in
\* map order) and the locked copy of its key list
Cleanup_range(s) ==
    LET g == gc[s] IN
    /\ g.pc = "range"
    /\ \E ns \in DOMAIN g.subtrees :
        LET ptr == g.subtrees[ns]
            keysI == SortedKeys(DOMAIN trees[s][ptr])
            g1 == [g EXCEPT !.ns = ns, !.subtree = ptr, !.keysI = keysI,
                            !.outKeys = <<>>, !.subtrees = MapRemove(@, ns)]
        IN /\ gc' = [gc EXCEPT ![s] = [g1 EXCEPT !.pc = IF keysI = <<>> THEN "remove"
                                                       ELSE "Keys_loop"]]
           /\ hist' = [hist EXCEPT !.swept = @ \cup {ns}]
    /\ UNCHANGED <<cl, udp, now, namespaces, trees, wk, peers, net>>

\* tree.go 44-52 called from store.go 154: one iteration of Keys()
Cleanup_Keys_loop(s) ==
    LET g == gc[s]
        key == Head(g.keysI)
        r == TreeCount(trees[s][g.subtree], key, now)
        outKeys == IF r.count = 0 THEN g.outKeys ELSE Append(g.outKeys, key)
        g1 == [g EXCEPT !.keysI = Tail(g.keysI), !.outKeys = outKeys]
    IN
    /\ g.pc = "Keys_loop"
    /\ trees' = [trees EXCEPT ![s][g.subtree] = r.tree]
    /\ gc' = [gc EXCEPT ![s] =
                IF g1.keysI # <<>> THEN g1
                ELSE IF Len(outKeys) = 0 THEN [g1 EXCEPT !.pc = "remove"]
                ELSE NextSubtree(g1)]
    /\ UNCHANGED <<cl, udp, now, namespaces, wk, peers, net, hist>>

\* store.go 155-160: Keys() returned no key, the namespace is removed
Cleanup_remove(s) ==
    LET g == gc[s] IN
    /\ g.pc = "remove"
    /\ namespaces' = [namespaces EXCEPT ![s] = MapRemove(@, g.ns)]
    /\ gc' = [gc EXCEPT ![s] = NextSubtree(g)]
    /\ hist' = [hist EXCEPT !.removed = @ \cup {g.ns}]
    /\ UNCHANGED <<cl, udp, now, trees, wk, peers, net>>

Cleanup(s) ==
    \/ Cleanup_start(s)
    \/ Cleanup_fetch(s)
    \/ Cleanup_range(s)
    \/ Cleanup_Keys_loop(s)
    \/ Cleanup_remove(s)

\* ------------------------------------------- one standalone server (server 1)
Worker(t) ==
    \/ Put_insert(t)
    \/ Put_tree(t)
    \/ Count_tree(t)
    \/ CountEntries_get(t)
    \/ Keys_lock(t)
    \/ Keys_loop(t)
    \/ Respond(t)

StoreThreads == {t \in Threads : Srv(t) = 1}

Next ==
    \/ \E t \in StoreThreads : Request(t) \/ Worker(t)
    \/ Cleanup(1)
    \/ Tick

\* the workers and the cleanup goroutine of one server, in any interleaving
Spec == Init /\ [][Next]_vars


\* ------------------------------------------------ the same server, run
\* sequentially: a request, or a cleanup pass, starts only when no other is
\* in progress; the clock runs freely
Quiet(others) == \A t \in others : wk[t].pc = "idle"

SeqNext ==
    \/ \E t \in StoreThreads :
         /\ Quiet(StoreThreads \ {t}) /\ gc[1].pc = "idle"
         /\ RequestWithin(t, MaxSeqRequests, NumKeys) \/ Worker(t)
    \/ Quiet(StoreThreads) /\ Cleanup(1)
    \/ Tick

SeqSpec == Init /\ [][SeqNext]_vars

\* ------------------------------------------------------------ observations
\* what Store.Count(ns, key) would return to a caller running alone now
CountNow(s, ns, key) ==
    IF ns \in DOMAIN namespaces[s]
    THEN TreeCount(trees[s][namespaces[s][ns]], key, now).count
    ELSE 0

\* no occurrence of (ns, key) has expired yet
NoneExpired(ns, key) ==
    hist.first[ns][key] = -1 \/ hist.first[ns][key] + expireAfterSecs > now

\* every put of (ns, key) was applied at least TTL seconds before second t
AllExpiredAt(ns, key, t) ==
    hist.last[ns][key] # -1 /\ hist.last[ns][key] + expireAfterSecs <= t

Responding(t, cmd) == wk[t].pc = "respond" /\ wk[t].cmd = cmd


\* ------------------------------------------------------------ the cluster
\* NewServerWithPeers on every server with the list of all servers
ClusterInit ==
    /\ now = 0
    /\ namespaces = [s \in Servers |-> EmptyMap]
    /\ trees = [s \in Servers |-> EmptyMap]
    /\ wk = [t \in Threads |-> IdleWorker(NoReq)]
    /\ gc = [s \in Servers |-> IdleCleanup]
    /\ peers = [s \in Servers |-> NewServerWithPeers(s, Servers)]
    /\ net = {}
    /\ cl = NewClient
    /\ udp = NoFrame
    /\ hist = InitHist

Datagram(to, cmd, id, ns, key) ==
    [to |-> to, cmd |-> cmd, id |-> id, ns |-> ns, key |-> key]

\* client.go 297-313: a client PUT, with a fresh message id, is sent to a
\* server of the client's pool
ClientPut(s, ns, key) ==
    /\ hist.sent < MaxClientPuts
    /\ net' = net \cup {Datagram(s, "P", hist.sent + 1, ns, key)}
    /\ hist' = [hist EXCEPT !.sent = @ + 1]
    /\ UNCHANGED <<cl, udp, now, namespaces, trees, wk, gc, peers>>

\* server.go 150-163, 193-234: a datagram addressed to the server of worker t
\* is read and handed to t, which dispatches it: PUT and PUT-REPLICATE both
\* enter store.Put
Receive(t) ==
    \E m \in net :
        /\ m.to = Srv(t)
        /\ net' = net \ {m}
        /\ Put_get(t, m.cmd, m.id, m.ns, m.key)
        /\ UNCHANGED hist

RepublishToNobody(self, to) == {}

\* server.go 286-302: the servers the 'R' copy of the packet is written to
RepublishTo(self, to) == to

\* server.go 237-240, 284-303
Republish(t) ==
    LET s == Srv(t) w == wk[t]
        to == RepublishTo(s, peers[s])
    IN
    /\ w.pc = "republish"
    /\ net' = net \cup {Datagram(p, "R", w.id, w.ns, w.key) : p \in to}
    /\ hist' = [hist EXCEPT !.repl = @ + Cardinality(to)]
    /\ wk' = [wk EXCEPT ![t] = IdleWorker(w.prev)]
    /\ UNCHANGED <<cl, udp, now, namespaces, trees, gc, peers>>

ClusterNext ==
    \/ \E s \in Servers, ns \in Namespaces, key \in 1..NumConcKeys : ClientPut(s, ns, key)
    \/ \E t \in Threads : \/ Receive(t)
                          \/ Put_insert(t)
                          \/ Put_tree(t)
                          \/ Respond(t)
                          \/ Republish(t)
    \/ Tick

\* the servers of a cluster, each with its workers, and clients that put
ClusterSpec == ClusterInit /\ [][ClusterNext]_vars

\* every client PUT was sent, handled and acknowledged, every replication
\* message was delivered and handled
ClusterQuiet ==
    /\ net = {}
    /\ \A t \in Threads : wk[t].pc = "idle"
    /\ hist.sent > 0

\* ------------------------------------------------------ the packet codec
\* Bytes are 0..255 and a []byte is a sequence of them; Go's offsets are
\* 0-based, so buf[i] is At(buf, i) and buf[lo:hi] is Slice(buf, lo, hi).
PacketSize == 1500
NamespaceSize == 64
DataValueSize == 1419

CmdCount == 67
CmdPut == 80
CmdPutReplicate == 82
CmdCountNamespace == 78
CmdCountServer == 83
CmdTCPOnlyKeys == 75
ResError == 69

space == 32
spaceIndex1 == 1
spaceIndex2 == 10
spaceIndex3 == 15
spaceIndex4 == 80

At(buf, i) == buf[i + 1]
Slice(buf, lo, hi) == SubSeq(buf, lo + 1, hi)
Max(S) == CHOOSE x \in S : \A y \in S : y <= x

\* "bad packet: size must be 1500 bytes"
ErrInvalidPacketSize ==
    <<98, 97, 100, 32, 112, 97, 99, 107, 101, 116, 58, 32, 115, 105, 122,
      101, 32, 109, 117, 115, 116, 32, 98, 101, 32, 49, 53, 48, 48, 32, 98,
      121, 116, 101, 115>>
\* "bad packet: invalid command byte"
ErrInvalidCommandByte ==
    <<98, 97, 100, 32, 112, 97, 99, 107, 101, 116, 58, 32, 105, 110, 118,
      97, 108, 105, 100, 32, 99, 111, 109, 109, 97, 110, 100, 32, 98, 121,
      116, 101>>
\* "bad packet: expected space 1"
ErrProtocolSpace1 ==
    <<98, 97, 100, 32, 112, 97, 99, 107, 101, 116, 58, 32, 101, 120, 112,
      101, 99, 116, 101, 100, 32, 115, 112, 97, 99, 101, 32, 49>>
\* "bad packet: expected space 1" (the text of the source, as it is)
ErrProtocolSpace2 ==
    <<98, 97, 100, 32, 112, 97, 99, 107, 101, 116, 58, 32, 101, 120, 112,
      101, 99, 116, 101, 100, 32, 115, 112, 97, 99, 101, 32, 49>>
\* "bad packet: expected space 3"
ErrProtocolSpace3 ==
    <<98, 97, 100, 32, 112, 97, 99, 107, 101, 116, 58, 32, 101, 120, 112,
      101, 99, 116, 101, 100, 32, 115, 112, 97, 99, 101, 32, 51>>
\* "auth failed: packet hash invalid"
ErrBadHash ==
    <<97, 117, 116, 104, 32, 102, 97, 105, 108, 101, 100, 58, 32, 112, 97,
      99, 107, 101, 116, 32, 104, 97, 115, 104, 32, 105, 110, 118, 97, 108,
      105, 100>>
\* "unknown_command_"
unknown_command_ ==
    <<117, 110, 107, 110, 111, 119, 110, 95, 99, 111, 109, 109, 97, 110,
      100, 95>>

IsRequestCmd(c) ==
    c \in {CmdCount, CmdPut, CmdCountNamespace, CmdCountServer, CmdPutReplicate}

IsResponseCmd(c) == c = ResError \/ IsRequestCmd(c)

\* out[i] = space for the bytes after the input; a longer input is returned as is
padRight(in, finalSize) ==
    IF Len(in) >= finalSize THEN in
    ELSE [i \in 1..finalSize |-> IF i <= Len(in) THEN in[i] ELSE space]

\* binary.LittleEndian.Uint64 reads the first eight bytes of the slice; the
\* uint64 is kept as its four base-65536 digits, least significant first
Uint64FromBytes(eightBytes) ==
    [i \in 1..4 |-> eightBytes[2 * i - 1] + 256 * eightBytes[2 * i]]

\* strings.TrimSpace on ASCII text: \t \n \v \f \r and space, at both ends
IsSpaceByte(c) == c \in {9, 10, 11, 12, 13, 32}

TrimSpace(b) ==
    LET keep == {i \in DOMAIN b : ~IsSpaceByte(b[i])}
    IN  IF keep = {} THEN <<>> ELSE SubSeq(b, Min(keep), Max(keep))

\* hash.Hash.Sum(in) of a hasher nothing was written to: it appends the
\* digest of the empty input (XXH64 seed 0 = EF46DB3751D8E999, big endian)
\* to in and returns the resulting slice
SumOfNewHasher(in) == in \o <<239, 70, 219, 55, 81, 216, 233, 153>>

HashPacket(p, preSharedKey) ==
    SumOfNewHasher(preSharedKey \o p.MessageIDBytes \o p.Namespace \o p.DataValue)

SetHash(p, preSharedKey) ==
    LET h == HashPacket(p, preSharedKey)
    IN  [p EXCEPT !.HashBytes = h, !.Hash = Uint64FromBytes(h)]

\* mutant: every tag is accepted
ValidateAnyTag(p, preSharedKey) == NoErr

Validate(p, preSharedKey) ==
    IF p.Hash # Uint64FromBytes(HashPacket(p, preSharedKey))
    THEN ErrBadHash ELSE NoErr

NewPacketFromParts(command, messageID, namespace, dataValue, preSharedKey) ==
    SetHash([Command |-> command,
             HashBytes |-> <<>>,
             Hash |-> <<>>,
             MessageID |-> Uint32FromBytes(messageID),
             MessageIDBytes |-> messageID,
             Namespace |-> padRight(namespace, NamespaceSize),
             DataValue |-> padRight(dataValue, DataValueSize)],
            preSharedKey)

NamespaceString(p) == TrimSpace(p.Namespace)
DataValueString(p) == TrimSpace(p.DataValue)

NilPacket ==
    [Command |-> 0, HashBytes |-> <<>>, Hash |-> <<>>, MessageID |-> Uint32(0),
     MessageIDBytes |-> <<>>, Namespace |-> <<>>, DataValue |-> <<>>]

ParsePacket(buf) ==
    IF Len(buf) < spaceIndex4 + 2
    THEN [isNil |-> TRUE, packet |-> NilPacket, err |-> ErrInvalidPacketSize]
    ELSE
      LET hBytes == Slice(buf, spaceIndex1 + 1, spaceIndex2)
          idBytes == Slice(buf, spaceIndex2 + 1, spaceIndex3)
          nsBytes == Slice(buf, spaceIndex3 + 1, spaceIndex4)
          endAt == IF Len(buf) < PacketSize THEN Len(buf) ELSE PacketSize
          messageIData == Slice(buf, spaceIndex4 + 1, endAt)
          p == [Command |-> At(buf, 0),
                HashBytes |-> hBytes,
                Hash |-> Uint64FromBytes(hBytes),
                MessageIDBytes |-> idBytes,
                MessageID |-> Uint32FromBytes(idBytes),
                Namespace |-> nsBytes,
                DataValue |-> padRight(messageIData, DataValueSize)]
          commandIsValid == IsRequestCmd(p.Command) \/ IsResponseCmd(p.Command)
          err == IF Len(buf) # PacketSize THEN ErrInvalidPacketSize
                 ELSE IF ~commandIsValid THEN ErrInvalidCommandByte
                 ELSE IF At(buf, spaceIndex1) # space THEN ErrProtocolSpace1
                 ELSE IF At(buf, spaceIndex2) # space THEN ErrProtocolSpace2
                 ELSE IF At(buf, spaceIndex3) # space THEN ErrProtocolSpace3
                 ELSE IF At(buf, spaceIndex4) # space THEN ErrProtocolSpace3
                 ELSE NoErr
      IN  [isNil |-> FALSE, packet |-> p, err |-> err]

\* Packet.bytes
bytes(p) ==
    <<p.Command, space>> \o SubSeq(p.HashBytes, 1, 8) \o <<space>>
        \o SubSeq(p.MessageIDBytes, 1, 4) \o <<space>>
        \o padRight(p.Namespace, NamespaceSize) \o <<space>>
        \o padRight(p.DataValue, DataValueSize)

\* Packet.Bytes: (out, nil), or (nil, ErrBadOutputSize) shown as isErr
PacketBytes(p) ==
    LET out == bytes(p)
    IN  IF Len(out) # PacketSize THEN [out |-> <<>>, isErr |-> TRUE]
        ELSE [out |-> out, isErr |-> FALSE]

\* ------------------------------------------- one UDP frame, end to end
\* A client call (or any other sender) puts one datagram on the wire to
\* server 1; readUDPFrames reads it into a PacketSize buffer and queues it; a
\* worker parses, validates and dispatches it and replies; the client's
\* handleResponsesForever parses the reply and calls the waiting callback.

\* pre-shared keys: "", "asdf-jkl-HOHOHO!", "asdf-jkl-XXXX", "Brute-Force9"
KeyEmpty == <<>>
KeyHoho == <<97, 115, 100, 102, 45, 106, 107, 108, 45, 72, 79, 72, 79, 72, 79, 33>>
KeyXxxx == <<97, 115, 100, 102, 45, 106, 107, 108, 45, 88, 88, 88, 88>>
KeyBrute == <<66, 114, 117, 116, 101, 45, 70, 111, 114, 99, 101, 57>>
ServerKeys == {KeyEmpty, KeyHoho}
SenderKeys == {KeyEmpty, KeyHoho, KeyXxxx, KeyBrute}

\* "default" and "bren.msdc.co"
SampleNamespace == <<100, 101, 102, 97, 117, 108, 116>>
SampleValue == <<98, 114, 101, 110, 46, 109, 115, 100, 99, 46, 99, 111>>

\* command bytes a sender may write: the seven of the protocol and 'Z'
SenderCommands ==
    {CmdCount, CmdPut, CmdPutReplicate, CmdCountNamespace, CmdCountServer,
     CmdTCPOnlyKeys, ResError, 90}

\* datagrams derived from a well-formed frame b: b itself, b cut short, b
\* with bytes after it, b with one delimiter overwritten by 'x'
Datagrams(b) ==
    {b}
    \cup {SubSeq(b, 1, n) : n \in {0, 40, 81, 82, 1000, 1499}}
    \cup {b \o extra : extra \in {<<space>>, <<120, 121, 122>>}}
    \cup {[b EXCEPT ![i + 1] = 120] :
            i \in {spaceIndex1, spaceIndex2, spaceIndex3, spaceIndex4}}

ProtoInit ==
    /\ now = 0
    /\ namespaces = [s \in Servers |-> EmptyMap]
    /\ trees = [s \in Servers |-> EmptyMap]
    /\ wk = [t \in Threads |-> IdleWorker(NoReq)]
    /\ gc = [s \in Servers |-> IdleCleanup]
    /\ peers = [s \in Servers |-> {}]
    /\ net = {}
    /\ cl = NewClient
    /\ udp \in {IdleFrame(k) : k \in ServerKeys}
    /\ hist = InitHist

StoreVars == <<now, namespaces, trees, wk, gc, peers, net, cl, hist>>

\* Client.Put, Count, CountNamespace, CountServer with _send
ClientArgs(cmd) ==
    IF cmd = CmdCountServer THEN [ns |-> <<>>, value |-> <<>>]
    ELSE IF cmd = CmdCountNamespace THEN [ns |-> SampleNamespace, value |-> <<>>]
    ELSE [ns |-> SampleNamespace, value |-> SampleValue]

ClientCall(cmd, clientKey) ==
    /\ udp.phase = "idle"
    /\ LET id == AddUint32(udp.messageIDCounter, 1)
           a == ClientArgs(cmd)
           p == NewPacketFromParts(cmd, Uint32ToBytes(id), a.ns, a.value, clientKey)
           b == PacketBytes(p)
       IN  /\ ~b.isErr
           /\ udp' = [udp EXCEPT !.phase = "wire", !.sender = "client",
                                 !.cmd = cmd, !.clientKey = clientKey,
                                 !.id = Uint32ToBytes(id), !.ns = a.ns,
                                 !.value = a.value,
                                 !.messageIDCounter = id,
                                 !.messagesWaiting = {p.MessageID},
                                 !.datagram = b.out]
    /\ UNCHANGED StoreVars

\* any other sender: its datagram is built from a frame signed with any key
SendDatagram(cmd, key, f, d) ==
    /\ udp.phase = "idle"
    /\ udp' = [udp EXCEPT !.phase = "wire", !.sender = "other", !.cmd = cmd,
                          !.id = f.id, !.ns = f.ns, !.value = f.value,
                          !.clientKey = key, !.datagram = d]
    /\ UNCHANGED StoreVars

\* conn.ReadFromUDP(message[:]) into make([]byte, PacketSize): the first
\* PacketSize bytes of the datagram are copied, the rest of the buffer stays 0
ReadFromUDP(datagram) ==
    [i \in 1..PacketSize |-> IF i <= Len(datagram) THEN datagram[i] ELSE 0]

readUDPFrames ==
    /\ udp.phase = "wire"
    /\ udp' = [udp EXCEPT !.phase = "queued",
                          !.message = ReadFromUDP(udp.datagram)]
    /\ UNCHANGED StoreVars

\* the tree after Tree.Keys and a Count of every key it returned, at second t
CleanTree(tr, t) ==
    [k \in {x \in DOMAIN tr : Len(tr[x]) # 0} |-> removeExpired(tr[k], t)]

EntriesOf(tr) == SumOver([k \in DOMAIN tr |-> Len(tr[k])], DOMAIN tr)

\* the store calls of a worker running alone on server 1, each in one step
StorePutAlone(ns, key) ==
    LET found == ns \in DOMAIN namespaces[1]
        ptr == IF found THEN namespaces[1][ns]
               ELSE Cardinality(DOMAIN trees[1]) + 1
        subtree == IF found THEN trees[1][ptr] ELSE NewTree
    IN  /\ namespaces' = [namespaces EXCEPT ![1] = MapPut(@, ns, ptr)]
        /\ trees' = [trees EXCEPT
                        ![1] = MapPut(@, ptr, TreePut(subtree, key, now, now))]

StoreCountAlone(ns, key) ==
    IF ns \in DOMAIN namespaces[1]
    THEN LET ptr == namespaces[1][ns]
             c == TreeCount(trees[1][ptr], key, now)
         IN  [trees |-> [trees EXCEPT ![1][ptr] = c.tree], count |-> c.count]
    ELSE [trees |-> trees, count |-> 0]

StoreCountEntriesAlone(ns) ==
    IF ns \in DOMAIN namespaces[1]
    THEN LET ptr == namespaces[1][ns]
             tr == CleanTree(trees[1][ptr], now)
         IN  [trees |-> [trees EXCEPT ![1][ptr] = tr], count |-> EntriesOf(tr)]
    ELSE [trees |-> trees, count |-> 0]

StoreCountServerEntriesAlone ==
    LET live == {namespaces[1][ns] : ns \in DOMAIN namespaces[1]}
        after == [p \in DOMAIN trees[1] |->
                    IF p \in live THEN CleanTree(trees[1][p], now)
                    ELSE trees[1][p]]
    IN  [trees |-> [trees EXCEPT ![1] = after],
         count |-> SumOver([p \in live |-> EntriesOf(after[p])], live)]

\* "\n.\n"
StopSymbol == <<10, 46, 10>>

\* respondOrLogError: the bytes written to the sender, <<>> when none are
respondOrLogError(resPacket) ==
    LET b == PacketBytes(resPacket) IN IF b.isErr THEN <<>> ELSE b.out

\* respondOrLogErrorTCP: the stop symbol is appended to the data value, then
\* Bytes() is called; ErrBadOutputSize is let through, and b is nil with it
respondOrLogErrorTCP(resPacket) ==
    LET packet == [resPacket EXCEPT !.DataValue = @ \o StopSymbol]
        b == PacketBytes(packet)
    IN  IF b.isErr THEN <<>> ELSE b.out

\* the closure respond of Server.worker
Respondable(resPacket) ==
    IF udp.tcp THEN respondOrLogErrorTCP(resPacket)
    ELSE respondOrLogError(resPacket)

Handled(reply, call) ==
    udp' = [udp EXCEPT !.phase = "handled", !.reply = reply, !.call = call,
                       !.via = IF reply = <<>> THEN "-"
                               ELSE IF udp.tcp THEN "tcp" ELSE "udp"]

\* the peers republish writes to when WriteToUDP fails for the peers in
\* failing: those of the list before the first failure, after which it returns
WrittenBeforeFailure(peerList, failing) ==
    {q \in peerList : \A f \in failing : q < f}

\* mutant: a failed write is logged and the loop goes on
WrittenExceptFailed(peerList, failing) == peerList \ failing

\* Server.republish: the datagrams that reach the network
republish(packet, frame, failing) ==
    LET p == SetHash([packet EXCEPT !.Command = CmdPutReplicate],
                     udp.preSharedKey)
        b == PacketBytes(p)
    IN  IF b.isErr THEN {}
        ELSE {Datagram(peer, p.Command, frame, NamespaceString(p),
                       DataValueString(p)) :
                peer \in WrittenBeforeFailure(peers[1], failing)}

\* one iteration of Server.worker on the queued message
worker_message ==
    /\ udp.phase = "queued"
    /\ LET r == ParsePacket(udp.message)
           packet == r.packet
           key == udp.preSharedKey
           ns == NamespaceString(packet)
           dv == DataValueString(packet)
           res(command, dataValue) ==
               Respondable(NewPacketFromParts(command, packet.MessageIDBytes,
                                              packet.Namespace, dataValue, key))
           counted(op, c) ==
               /\ Handled(res(packet.Command, Uint32ToBytes(Uint32(c.count))),
                          [op |-> op, ns |-> ns, key |-> dv])
               /\ trees' = c.trees
               /\ UNCHANGED <<namespaces, net>>
       IN  IF r.isNil
           THEN \* packet.Command of a nil packet: the goroutine panics
                /\ udp' = [udp EXCEPT !.phase = "panic"]
                /\ UNCHANGED <<namespaces, trees, net>>
           ELSE IF r.err # NoErr
           THEN /\ Handled(res(ResError, r.err), NoCall)
                /\ UNCHANGED <<namespaces, trees, net>>
           ELSE IF Validate(packet, key) # NoErr
           THEN /\ Handled(res(ResError, ErrBadHash), NoCall)
                /\ UNCHANGED <<namespaces, trees, net>>
           ELSE IF packet.Command = CmdPutReplicate
           THEN /\ StorePutAlone(ns, dv)
                /\ Handled(<<>>, [op |-> "Put", ns |-> ns, key |-> dv])
                /\ UNCHANGED net
           ELSE IF packet.Command = CmdPut
           THEN /\ StorePutAlone(ns, dv)
                /\ Handled(res(CmdPut, <<>>), [op |-> "Put", ns |-> ns, key |-> dv])
                /\ IF peers[1] # {}
                   THEN \E failing \in SUBSET peers[1] :
                           net' = net \cup republish(packet, hist.sent, failing)
                   ELSE UNCHANGED net
           ELSE IF packet.Command = CmdCount
           THEN counted("Count", StoreCountAlone(ns, dv))
           ELSE IF packet.Command = CmdCountNamespace
           THEN counted("CountEntries", StoreCountEntriesAlone(ns))
           ELSE IF packet.Command = CmdCountServer
           THEN counted("CountServerEntries", StoreCountServerEntriesAlone)
           ELSE IF packet.Command = CmdTCPOnlyKeys
           THEN \* not reached from ParsePacket, which refuses 'K'
                /\ udp' = [udp EXCEPT !.phase = "keys",
                              !.call = [op |-> "KeyMatch", ns |-> ns, key |-> dv]]
                /\ UNCHANGED <<namespaces, trees, net>>
           ELSE /\ Handled(res(ResError, unknown_command_ \o <<packet.Command>>),
                           NoCall)
                /\ UNCHANGED <<namespaces, trees, net>>
    /\ UNCHANGED <<now, wk, gc, peers, cl, hist>>

\* one iteration of Client.handleResponsesForever on the reply, with the
\* callbacks of Put (err = e) and of the counts (output from the first 4 bytes)
called(err, b) ==
    udp' = [udp EXCEPT !.phase = "done", !.messagesWaiting = {},
                       !.cbCalled = TRUE, !.cbErr = err, !.cbData = b]

handleResponsesForever ==
    /\ udp.phase = "handled"
    /\ udp.sender = "client"
    /\ udp.reply # <<>>
    /\ LET r == ParsePacket(ReadFromUDP(udp.reply))
           packet == r.packet
       IN  IF r.err # NoErr /\ ~(~r.isNil /\ packet.MessageID # Uint32(0))
           THEN udp' = [udp EXCEPT !.phase = "done"]
           ELSE IF packet.MessageID \notin udp.messagesWaiting
           THEN udp' = [udp EXCEPT !.phase = "done"]
           ELSE IF ~IsResponseCmd(packet.Command)
           THEN udp' = [udp EXCEPT !.phase = "done", !.messagesWaiting = {}]
           ELSE IF packet.Command = ResError
           THEN called(DataValueString(packet), <<>>)
           ELSE IF packet.Command \in {CmdCount, CmdPut, CmdCountNamespace,
                                       CmdCountServer}
           THEN called(NoErr, IF packet.Command = CmdPut THEN <<>>
                              ELSE Slice(packet.DataValue, 0, 4))
           ELSE udp' = [udp EXCEPT !.phase = "done", !.messagesWaiting = {}]
    /\ UNCHANGED StoreVars

ClientCommands == {CmdPut, CmdCount, CmdCountNamespace, CmdCountServer}

\* what another sender builds its packet from: message id 7 with the sample
\* namespace and value, or message id 2^24 + 2^8 with a namespace of
\* NamespaceSize bytes 'n' and a value of DataValueSize bytes 'v'
SenderFields ==
    {[id |-> Uint32ToBytes(Uint32(7)), ns |-> SampleNamespace, value |-> SampleValue],
     [id |-> <<0, 1, 0, 1>>,
      ns |-> [i \in 1..NamespaceSize |-> 110],
      value |-> [i \in 1..DataValueSize |-> 118]]}

\* the frame another sender starts from, signed with key
SenderFrame(cmd, key, f) ==
    PacketBytes(NewPacketFromParts(cmd, f.id, f.ns, f.value, key)).out

ProtoNext ==
    \/ \E cmd \in ClientCommands, key \in SenderKeys : ClientCall(cmd, key)
    \/ \E cmd \in SenderCommands, key \in SenderKeys, f \in SenderFields :
         \E d \in Datagrams(SenderFrame(cmd, key, f)) :
            SendDatagram(cmd, key, f, d)
    \/ readUDPFrames
    \/ worker_message
    \/ handleResponsesForever

ProtoSpec == ProtoInit /\ [][ProtoNext]_vars

\* the checks of a frame, on the datagram as it was sent
Recognised(c) == IsRequestCmd(c) \/ IsResponseCmd(c)

HasDelimiters(d) ==
    \A i \in {spaceIndex1, spaceIndex2, spaceIndex3, spaceIndex4} :
        Len(d) > i /\ At(d, i) = space

TagRecomputes(d, preSharedKey) ==
    /\ Len(d) >= spaceIndex4 + 2
    /\ Validate(ParsePacket(d).packet, preSharedKey) = NoErr

WellFormed(d, preSharedKey) ==
    /\ Len(d) = PacketSize
    /\ Recognised(At(d, 0))
    /\ HasDelimiters(d)
    /\ TagRecomputes(d, preSharedKey)

IsErrorReply(reply) == Len(reply) = PacketSize /\ At(reply, 0) = ResError

\* ------------------------------------------------------------------ claims
\* C1: in a sequential run, a COUNT of (ns, key) none of whose occurrences has
\* expired returns the number of PUTs of (ns, key) completed so far, which is
\* 0 for a pair that was never put.
C1_CountIsNumberOfPuts ==
    \A t \in StoreThreads :
        Responding(t, "C") /\ NoneExpired(wk[t].ns, wk[t].key)
            => wk[t].result = hist.n[wk[t].ns][wk[t].key]

\* a COUNT answers 2 after two PUTs of its pair while the same key under the
\* other namespace was never put
C1_Witness ==
    \E t \in StoreThreads :
        /\ Responding(t, "C") /\ NoneExpired(wk[t].ns, wk[t].key)
        /\ wk[t].result = 2
        /\ \E ns \in Namespaces \ {wk[t].ns} : hist.n[ns][wk[t].key] = 0

\* C2: once every PUT of (ns, key) is at least TTL clock seconds old, COUNT
\* returns 0 and Keys() of the namespace does not list the key, in every
\* interleaving with other requests and with the cleanup pass.
C2_ExpiredCountsZero ==
    \A t \in StoreThreads :
        /\ Responding(t, "C") /\ AllExpiredAt(wk[t].ns, wk[t].key, wk[t].at)
              => wk[t].result = 0
        /\ Responding(t, "N")
              => \A k \in Keys : AllExpiredAt(wk[t].ns, k, wk[t].at)
                                    => k \notin SeqToSet(wk[t].outKeys)

\* a COUNT finds its namespace still in the store (no cleanup pass removed it)
\* with every occurrence of the key expired, and answers 0
C2_Witness ==
    \E t \in StoreThreads :
        /\ Responding(t, "C") /\ AllExpiredAt(wk[t].ns, wk[t].key, wk[t].at)
        /\ wk[t].ns \in DOMAIN namespaces[1]
        /\ wk[t].key \in DOMAIN trees[1][namespaces[1][wk[t].ns]]
        /\ wk[t].result = 0


\* the request that thread t is answering follows a PUT of the same client
\* that is, now that the answer is ready, still younger than the TTL, and no
\* other client wrote into the namespace of that PUT
AfterOwnPut(t) ==
    /\ wk[t].prev.cmd = "P"
    /\ now < wk[t].prev.at + expireAfterSecs
    /\ hist.writers[wk[t].prev.ns] = {t}

AllIdle == \A t \in StoreThreads : wk[t].pc = "idle"

\* C4: once every PUT is acknowledged and none has expired, and whatever the
\* interleaving of the workers was (no cleanup pass ran), COUNT of a pair
\* equals the number of its acknowledged PUTs.
C4_NoAcknowledgedPutLost ==
    AllIdle /\ hist.cleanups = 0
        => \A ns \in Namespaces, key \in Keys :
              NoneExpired(ns, key) => CountNow(1, ns, key) = hist.n[ns][key]

SumNamespaceNow(ns) == SumOver([k \in Keys |-> CountNow(1, ns, k)], Keys)

\* C6: run alone and within one clock second, COUNT-NAMESPACE returns the sum
\* over the keys of what COUNT returns (0 for an absent namespace) and
\* COUNT-SERVER the sum of that over the namespaces.
C6_CountNamespaceIsSum ==
    \A t \in StoreThreads :
        /\ Responding(t, "N") /\ wk[t].at = now
              => wk[t].result = SumNamespaceNow(wk[t].ns)
        /\ Responding(t, "S") /\ wk[t].at = now
              => wk[t].result = SumOver([ns \in Namespaces |-> SumNamespaceNow(ns)],
                                        Namespaces)

\* COUNT-SERVER answers 2 over two namespaces that hold one live occurrence each
C6_Witness ==
    \E t \in StoreThreads :
        /\ Responding(t, "S") /\ wk[t].at = now /\ wk[t].result = 2
        /\ \A ns \in Namespaces : SumNamespaceNow(ns) = 1


\* C7: in a full-mesh cluster without loss, once every replication message is
\* delivered and before anything expires, COUNT of a pair at every server
\* equals the number of client PUTs of that pair.
C7_EveryServerCountsEveryPut ==
    ClusterQuiet
        => \A s \in Servers, ns \in Namespaces, key \in Keys :
              NoneExpired(ns, key) => CountNow(s, ns, key) = hist.n[ns][key]

C9_ForeignKeyRejected ==
    (udp.phase = "done" /\ udp.sender = "client" /\ udp.cmd \in {CmdPut, CmdCount})
    => IF udp.clientKey = udp.preSharedKey
       THEN udp.cbCalled /\ udp.cbErr = NoErr /\ ~IsErrorReply(udp.reply)
       ELSE udp.cmd = CmdPut
            => /\ IsErrorReply(udp.reply)
               /\ TrimSpace(ParsePacket(udp.reply).packet.DataValue) = ErrBadHash
               /\ udp.cbCalled /\ udp.cbErr = ErrBadHash
               /\ udp.call = NoCall

\* C10: a worker calls the store for a UDP frame only if the datagram was
\* exactly 1500 bytes long, had a recognised command byte, a space at each of
\* the offsets 1, 10, 15 and 80 and a tag that recomputes under the server's
\* key; every other datagram is answered with an Error reply.
C10_OnlyWellFormedDispatched ==
    udp.phase \in {"handled", "done"}
    => /\ udp.call # NoCall => WellFormed(udp.datagram, udp.preSharedKey)
       /\ ~WellFormed(udp.datagram, udp.preSharedKey)
          => udp.call = NoCall /\ IsErrorReply(udp.reply)

\* the packet the sender built and signed for the frame that is on its way
ClientPacket ==
    NewPacketFromParts(udp.cmd, udp.id, udp.ns, udp.value, udp.clientKey)

\* C11: a packet signed with key k validates under k, and under every other
\* key k' validation fails with ErrBadHash.
C11_SignVerify ==
    (udp.phase = "wire" /\ udp.sender = "client")
    => \A k \in SenderKeys :
          Validate(ClientPacket, k) = (IF k = udp.clientKey THEN NoErr ELSE ErrBadHash)

\* the commands of the protocol that the server or the client builds packets of
ProtocolCommands ==
    {CmdCount, CmdPut, CmdPutReplicate, CmdCountNamespace, CmdCountServer,
     CmdTCPOnlyKeys, ResError}

\* b without the spaces at its right end
TrimRightPadding(b) ==
    LET keep == {i \in DOMAIN b : b[i] # space}
    IN  IF keep = {} THEN <<>> ELSE SubSeq(b, 1, Max(keep))

\* C12: for a packet P built from a command of the protocol, a message id, a
\* namespace of at most 64 bytes and a value of at most 1419 bytes, parsing
\* the bytes of P succeeds and yields the command, the message id and the tag
\* of P, and its namespace and value up to the padding on the right.
C12_ParseSerializeRoundTrip ==
    (/\ udp.phase = "wire"
     /\ udp.cmd \in ProtocolCommands
     /\ Len(udp.ns) <= NamespaceSize /\ Len(udp.value) <= DataValueSize
     /\ udp.datagram = PacketBytes(ClientPacket).out)
    => LET r == ParsePacket(udp.datagram)
       IN  /\ ~PacketBytes(ClientPacket).isErr
           /\ ~r.isNil /\ r.err = NoErr
           /\ r.packet.Command = udp.cmd
           /\ r.packet.MessageIDBytes = udp.id
           /\ r.packet.MessageID = ClientPacket.MessageID
           /\ r.packet.Hash = ClientPacket.Hash
           /\ TrimRightPadding(r.packet.Namespace) = TrimRightPadding(udp.ns)
           /\ TrimRightPadding(r.packet.DataValue) = TrimRightPadding(udp.value)

\* the same for the commands that the parser accepts
C12_RoundTripOfAcceptedCommands ==
    udp.cmd # CmdTCPOnlyKeys => C12_ParseSerializeRoundTrip

\* ------------------------------------------------- message-id allocation
\* everything but the client and the clock
ServerVars == <<namespaces, trees, wk, gc, peers, net, udp, hist>>

Allocators == 1..NumAllocators

\* Client.makeMessageID that reads the counter and increments it afterwards
makeMessageIDStale(counter) ==
    [messageIDCounter |-> AddUint32(counter, 1),
     bytes |-> Uint32ToBytes(counter)]

\* Client.makeMessageID: the counter after atomic.AddUint32(&c.messageIDCounter, 1)
\* and the four bytes returned
makeMessageID(counter) ==
    LET id == AddUint32(counter, 1)
    IN  [messageIDCounter |-> id, bytes |-> Uint32ToBytes(id)]

\* the client after one makeMessageID, the caller decoding the bytes it got
Allocated(c) ==
    LET r == makeMessageID(c.messageIDCounter)
    IN  [c EXCEPT !.messageIDCounter = r.messageIDCounter,
                  !.allocated = Append(@, Uint32FromBytes(r.bytes))]

\* the counter values a client is started from: 0 as NewClient leaves it, and
\* 2^32 - 2, which it holds after that many allocations
FirstCounters == {Uint32(0), [lo |-> 65534, hi |-> 65535]}

IdInit ==
    /\ now = 0
    /\ namespaces = [s \in Servers |-> EmptyMap]
    /\ trees = [s \in Servers |-> EmptyMap]
    /\ wk = [t \in Threads |-> IdleWorker(NoReq)]
    /\ gc = [s \in Servers |-> IdleCleanup]
    /\ peers = [s \in Servers |-> {}]
    /\ net = {}
    /\ cl \in {[NewClient EXCEPT !.messageIDCounter = c, !.first = c] :
                  c \in FirstCounters}
    /\ udp = NoFrame
    /\ hist = InitHist

\* one of the concurrent callers allocates an id
Allocate(a) ==
    /\ cl.made[a] < MaxAllocations
    /\ cl' = [Allocated(cl) EXCEPT !.made[a] = @ + 1]
    /\ UNCHANGED <<now, ServerVars>>

AllFinished == \A a \in Allocators : cl.made[a] = MaxAllocations

\* the allocation made after every caller has finished
AllocateAfterAll ==
    /\ AllFinished
    /\ Len(cl.allocated) = NumAllocators * MaxAllocations
    /\ cl' = Allocated(cl)
    /\ UNCHANGED <<now, ServerVars>>

IdNext == (\E a \in Allocators : Allocate(a)) \/ AllocateAfterAll

IdSpec == IdInit /\ [][IdNext]_vars

\* C16: message-id allocation increments a 32-bit counter modulo 2^32: from
\* the counter value 2^32 - 2, three successive allocations return 2^32 - 1,
\* then 0, then 1.
C16_CounterWraps ==
    cl.first = [lo |-> 65534, hi |-> 65535]
    => \A k \in 1..Min({3, Len(cl.allocated)}) :
          cl.allocated[k] = <<MaxUint32, Uint32(0), Uint32(1)>>[k]

C16_Witness ==
    /\ cl.first = [lo |-> 65534, hi |-> 65535]
    /\ Len(cl.allocated) >= 3
    /\ cl.allocated[2] = Uint32(0)

\* C17: with NumAllocators concurrent callers each making MaxAllocations
\* allocations on a client whose counter starts at 0, no increment is lost:
\* the allocation made after all of them have finished returns
\* NumAllocators * MaxAllocations + 1.
C17_NoLostIncrement ==
    (cl.first = Uint32(0) /\ Len(cl.allocated) > NumAllocators * MaxAllocations)
    => cl.allocated[NumAllocators * MaxAllocations + 1]
          = Uint32(NumAllocators * MaxAllocations + 1)

C17_Witness ==
    /\ cl.first = Uint32(0)
    /\ AllFinished
    /\ Len(cl.allocated) = NumAllocators * MaxAllocations + 1

\* ------------------------------------ waitingmessage.ResponseCache (part_001)
ErrMessageIDExists == "message ID already exists"
ErrMessageExpired == "message expired"
ErrNoMessage == "message not found or was garbage collected"

\* ResponseCache.Add that stores the new entry over a pending one
AddOverwrites(cache, messageID, cb, t) ==
    [cache |-> MapPut(cache, messageID, [Callback |-> cb, CreatedSecs |-> t]),
     err |-> "nil"]

\* ResponseCache.Add at time t, under the lock
Add(cache, messageID, cb, t) ==
    IF messageID \in DOMAIN cache
    THEN [cache |-> cache, err |-> ErrMessageIDExists]
    ELSE [cache |-> MapPut(cache, messageID, [Callback |-> cb, CreatedSecs |-> t]),
          err |-> "nil"]

\* ResponseCache.Pull's test of the age that also rejects an entry exactly
\* timeoutSecs old
isExpiredAtTimeout(message, t) == message.CreatedSecs <= t - TimeoutSecs

\* entry.CreatedSecs < time.Now().Unix() - rc.timeoutSecs
isExpired(message, t) == message.CreatedSecs < t - TimeoutSecs

\* ResponseCache.Pull that leaves the entry in the map
PullKeepsEntry(cache, messageID, t) ==
    IF messageID \notin DOMAIN cache
    THEN [cache |-> cache, found |-> FALSE, Callback |-> 0, err |-> ErrNoMessage]
    ELSE IF isExpired(cache[messageID], t)
    THEN [cache |-> cache, found |-> FALSE, Callback |-> 0, err |-> ErrMessageExpired]
    ELSE [cache |-> cache, found |-> TRUE,
          Callback |-> cache[messageID].Callback, err |-> "nil"]

\* ResponseCache.Pull at time t, under the lock: the entry is deleted before
\* its age is looked at, and an expired entry's callback is not returned
Pull(cache, messageID, t) ==
    IF messageID \notin DOMAIN cache
    THEN [cache |-> cache, found |-> FALSE, Callback |-> 0, err |-> ErrNoMessage]
    ELSE IF isExpired(cache[messageID], t)
    THEN [cache |-> MapRemove(cache, messageID), found |-> FALSE, Callback |-> 0,
          err |-> ErrMessageExpired]
    ELSE [cache |-> MapRemove(cache, messageID), found |-> TRUE,
          Callback |-> cache[messageID].Callback, err |-> "nil"]

\* checkCleanup that ranges over the whole map
VisitsAll(cache) == {DOMAIN cache}

\* the entries one pass of checkCleanup looks at: the range over the map
\* breaks once i > entryCount / 3, so entryCount / 3 + 1 entries (all of them
\* if there are fewer) in the random order of the map
Visits(cache) ==
    LET entryCount == Cardinality(DOMAIN cache)
    IN  {V \in SUBSET DOMAIN cache :
            Cardinality(V) = Min({entryCount, entryCount \div 3 + 1})}

\* what the first loop of checkCleanup can end with at time t: the entries
\* visited, and removeTheseKeys, the expired ones among them in map order
Scans(cache, t) ==
    UNION {LET expired == {id \in V : isExpired(cache[id], t)}
           IN  {[visited |-> V, removeTheseKeys |-> q] : q \in Orderings(expired)} :
           V \in Visits(cache)}

\* the lock of the cache is free: no checkCleanup is sending on TimedOutMessages
CacheUnlocked == cl.removeTheseKeys = <<>>

\* checkCleanup up to its first send: it takes the lock and collects the
\* expired entries among those it visits (a pass that finds none changes
\* nothing)
checkCleanup ==
    /\ CacheUnlocked
    /\ \E scan \in Scans(cl.cache, now) :
          /\ scan.removeTheseKeys # <<>>
          /\ cl' = [cl EXCEPT !.removeTheseKeys = scan.removeTheseKeys,
                              !.last = [op |-> "checkCleanup"]]
    /\ UNCHANGED <<now, ServerVars>>

\* ----------------------------------------------- the cache used on its own
CacheIds == {Uint32(i) : i \in 1..NumCacheIds}
Callbacks == 1..NumCallbacks

CacheAdd(messageID, cb) ==
    /\ CacheUnlocked
    /\ LET r == Add(cl.cache, messageID, cb, now)
       IN  cl' = [cl EXCEPT !.cache = r.cache,
                            !.last = [op |-> "Add", messageID |-> messageID,
                                      cb |-> cb, err |-> r.err,
                                      before |-> cl.cache]]
    /\ UNCHANGED <<now, ServerVars>>

CachePull(messageID) ==
    /\ CacheUnlocked
    /\ LET r == Pull(cl.cache, messageID, now)
       IN  cl' = [cl EXCEPT !.cache = r.cache,
                            !.last = [op |-> "Pull", messageID |-> messageID,
                                      found |-> r.found, cb |-> r.Callback,
                                      err |-> r.err, before |-> cl.cache,
                                      at |-> now]]
    /\ UNCHANGED <<now, ServerVars>>

\* a pass of checkCleanup up to its first send, with what it visited kept
CacheCheckCleanup ==
    /\ CacheUnlocked
    /\ \E scan \in Scans(cl.cache, now) :
          cl' = [cl EXCEPT !.removeTheseKeys = scan.removeTheseKeys,
                           !.last = [op |-> "checkCleanup",
                                     visited |-> scan.visited,
                                     before |-> cl.cache, at |-> now,
                                     pushed |-> <<>>]]
    /\ UNCHANGED <<now, ServerVars>>

\* a receiver takes the next callback checkCleanup sends on TimedOutMessages;
\* checkCleanup deletes the entry just before the send
ReceiveTimedOut ==
    /\ cl.removeTheseKeys # <<>>
    /\ cl' = [cl EXCEPT !.cache = MapRemove(@, Head(cl.removeTheseKeys)),
                        !.removeTheseKeys = Tail(@),
                        !.last.pushed =
                            Append(@, cl.cache[Head(cl.removeTheseKeys)].Callback)]
    /\ UNCHANGED <<now, ServerVars>>

CacheNext ==
    \/ \E messageID \in CacheIds, cb \in Callbacks : CacheAdd(messageID, cb)
    \/ \E messageID \in CacheIds : CachePull(messageID)
    \/ CacheCheckCleanup
    \/ ReceiveTimedOut
    \/ Tick

CacheSpec == Init /\ [][CacheNext]_vars

\* C14: the cache holds at most one pending entry per message id: Add for an
\* id that is already pending returns ErrMessageIDExists and leaves the
\* existing entry (its callback and creation time) unchanged.
C14_AddOnPendingIdRefused ==
    (cl.last.op = "Add" /\ cl.last.messageID \in DOMAIN cl.last.before)
    => /\ cl.last.err = ErrMessageIDExists
       /\ cl.cache = cl.last.before

C14_Witness ==
    /\ cl.last.op = "Add"
    /\ cl.last.messageID \in DOMAIN cl.last.before
    /\ cl.last.before[cl.last.messageID].Callback # cl.last.cb
    /\ cl.last.before[cl.last.messageID].CreatedSecs < now

\* --------------------------------------- client operations (client.go, pool)
ErrMessageTimedOut == "timed out waiting for message response"
ErrNoHealthyServers == "no healthy dracula servers"
\* the error of a failed conn.WriteToUDP
ErrWrite == "write: network is unreachable"
\* errors.New(packet.DataValueString()) of an 'E' reply
ErrReply == "auth failed: packet hash invalid"

\* the callback closure of the operation the goroutine g is in
CallbackOf(g) == [g |-> g, n |-> cl.op[g].n]

\* the client c after the callback cb ran with e: err = e, wg.Done(). The
\* caller blocked in wg.Wait() returns; a second wg.Done() on the same
\* WaitGroup panics
Called(c, cb, e) ==
    LET o == c.op[cb.g]
    IN  IF o.n = cb.n /\ ~o.called
        THEN [c EXCEPT !.op[cb.g].called = TRUE,
                       !.op[cb.g].err = e,
                       !.op[cb.g].pc = IF o.pc = "wait" THEN "idle" ELSE o.pc]
        ELSE [c EXCEPT !.faults = @ \cup {"sync: negative WaitGroup counter"}]

\* the lock of the pool is free
PoolUnlocked == cl.pool.pc # "locked"

\* Pool.Choose that takes any configured server
ChooseAnyServer(healthy) == PoolServers

\* Pool.Choose: the servers it can return, healthy[rand.Intn(l)] (healthy[0]
\* if there is one, nil if there is none)
Choose(healthy) == SeqToSet(healthy)

\* Count, Put, CountNamespace, CountServer up to the call of _send:
\* makeMessageID, the callback, the packet, then sendOrCallbackErr with
\* Pool.Choose (packet.Bytes() succeeds)
sendOrCallbackErr(g) ==
    /\ cl.op[g].pc = "idle"
    /\ cl.op[g].n < MaxOperations
    /\ PoolUnlocked
    /\ LET c == Allocated(cl)
           o == [IdleOp EXCEPT !.n = cl.op[g].n + 1, !.id = c.messageIDCounter,
                               !.chosenFrom = SeqToSet(cl.healthy)]
           cb == [g |-> g, n |-> o.n]
       IN  IF Choose(cl.healthy) = {}
           THEN cl' = Called([c EXCEPT !.op[g] = o], cb, ErrNoHealthyServers)
           ELSE \E remoteServer \in Choose(cl.healthy) :
                   cl' = [c EXCEPT !.op[g] = [o EXCEPT !.pc = "add",
                                                       !.to = remoteServer]]
    /\ UNCHANGED <<now, ServerVars>>

\* _send: c.messagesWaiting.Add(packet.MessageID, cb)
send_Add(g) ==
    /\ cl.op[g].pc = "add"
    /\ CacheUnlocked
    /\ LET r == Add(cl.cache, cl.op[g].id, CallbackOf(g), now)
       IN  IF r.err # "nil"
           THEN cl' = [Called(cl, CallbackOf(g), r.err) EXCEPT !.op[g].pc = "idle"]
           ELSE cl' = [cl EXCEPT !.cache = r.cache,
                                 !.op[g].pc = "write",
                                 !.op[g].registered = TRUE,
                                 !.op[g].CreatedSecs = now]
    /\ UNCHANGED <<now, ServerVars>>

\* _send: c.conn.WriteToUDP succeeds; the caller goes on to wg.Wait()
send_WriteToUDP(g) ==
    /\ cl.op[g].pc = "write"
    /\ cl' = [cl EXCEPT !.sent = @ \cup {[messageID |-> cl.op[g].id,
                                          to |-> cl.op[g].to]},
                        !.op[g].written = TRUE,
                        !.op[g].pc = IF cl.op[g].called THEN "idle" ELSE "wait"]
    /\ UNCHANGED <<now, ServerVars>>

\* _send: c.conn.WriteToUDP fails; the entry is pulled and the callback (or,
\* if the pull fails, cb itself) is called with the error
send_WriteFails(g) ==
    /\ cl.op[g].pc = "write"
    /\ CacheUnlocked
    /\ LET r == Pull(cl.cache, cl.op[g].id, now)
           reCall == IF r.err # "nil" THEN CallbackOf(g) ELSE r.Callback
       IN  cl' = [Called([cl EXCEPT !.cache = r.cache], reCall, ErrWrite)
                     EXCEPT !.op[g].pc = "idle"]
    /\ UNCHANGED <<now, ServerVars>>

\* a server answers a datagram: with the count, or with an 'E' reply (its
\* preshared key differs); a datagram may also stay unanswered for ever
ServerReplies ==
    /\ \E d \in cl.sent, command \in {CmdCount, ResError} :
          cl' = [cl EXCEPT !.sent = @ \ {d},
                           !.replies = @ \cup {[messageID |-> d.messageID,
                                                Command |-> command]}]
    /\ UNCHANGED <<now, ServerVars>>

\* Client.Listen started handleResponsesForever and handleTimeouts
Listening == cl.pool.pc # "new"

\* the answer to a probe of this round, as the receive loop handles it
Answer(packet) ==
    IF /\ packet.messageID \in DOMAIN cl.cache
       /\ cl.cache[packet.messageID].Callback.g = 0
       /\ cl.op[0].probe
    THEN {[server |-> cl.op[0].to, Command |-> packet.Command,
           inTime |-> now <= cl.cache[packet.messageID].CreatedSecs + TimeoutSecs]}
    ELSE {}

\* one iteration of handleResponsesForever on a reply that parses
handleResponse ==
    /\ Listening
    /\ CacheUnlocked
    /\ \E packet \in cl.replies :
          LET r == Pull(cl.cache, packet.messageID, now)
              c == [cl EXCEPT !.replies = @ \ {packet},
                              !.cache = r.cache,
                              !.pool.answers = @ \cup Answer(packet)]
          IN  IF r.err # "nil" THEN cl' = c
              ELSE IF packet.Command = ResError
              THEN cl' = Called(c, r.Callback, ErrReply)
              ELSE cl' = Called(c, r.Callback, "nil")
    /\ UNCHANGED <<now, ServerVars>>

\* handleTimeouts receives the callback checkCleanup sends next (the entry is
\* deleted just before the send) and calls it with ErrMessageTimedOut
handleTimeouts ==
    /\ Listening
    /\ cl.removeTheseKeys # <<>>
    /\ LET messageID == Head(cl.removeTheseKeys)
       IN  cl' = Called([cl EXCEPT !.cache = MapRemove(@, messageID),
                                   !.removeTheseKeys = Tail(@)],
                        cl.cache[messageID].Callback, ErrMessageTimedOut)
    /\ UNCHANGED <<now, ServerVars>>

\* Pool.Listen begins the first pass of healthcheck; loopHealthcheck begins
\* every later one
StartRound ==
    [cl EXCEPT !.pool = [pc |-> "check", round |-> cl.pool.round + 1, i |-> 1,
                         healthy |-> <<>>, unhealthy |-> <<>>, answers |-> {}]]

Listen ==
    /\ cl.pool.pc = "new"
    /\ cl' = StartRound
    /\ UNCHANGED <<now, ServerVars>>

\* healthcheck calls Client.Healthcheck(servers[i]): makeMessageID, the
\* callback, the packet, then _send to that server
Healthcheck ==
    /\ cl.pool.pc = "check"
    /\ LET c == Allocated(cl)
       IN  cl' = [c EXCEPT !.pool.pc = "probing",
                           !.op[0] = [IdleOp EXCEPT !.pc = "add",
                                                   !.n = cl.op[0].n + 1,
                                                   !.id = c.messageIDCounter,
                                                   !.to = cl.pool.i,
                                                   !.chosenFrom = SeqToSet(cl.healthy),
                                                   !.probe = TRUE]]
    /\ UNCHANGED <<now, ServerVars>>

\* healthcheck that lists a server healthy whatever its probe returned
appendAlwaysHealthy(pool, err) ==
    [pool EXCEPT !.healthy = Append(@, pool.i)]

\* healthcheck: the append after Healthcheck returned err
append(pool, err) ==
    IF err # "nil"
    THEN [pool EXCEPT !.unhealthy = Append(@, pool.i)]
    ELSE [pool EXCEPT !.healthy = Append(@, pool.i)]

\* Healthcheck returned: the server goes to one of the local lists, and the
\* loop goes on with the next server
healthcheck ==
    /\ cl.pool.pc = "probing"
    /\ cl.op[0].pc = "idle"
    /\ cl' = [cl EXCEPT !.pool = [append(cl.pool, cl.op[0].err)
                                     EXCEPT !.i = @ + 1,
                                            !.pc = IF cl.pool.i = NumPoolServers
                                                   THEN "lock" ELSE "check"]]
    /\ UNCHANGED <<now, ServerVars>>

\* p.Lock(); p.healthy = healthy
assign_healthy ==
    /\ cl.pool.pc = "lock"
    /\ cl' = [cl EXCEPT !.healthy = cl.pool.healthy, !.pool.pc = "locked"]
    /\ UNCHANGED <<now, ServerVars>>

\* p.unhealthy = unhealthy; p.Unlock()
assign_unhealthy ==
    /\ cl.pool.pc = "locked"
    /\ cl' = [cl EXCEPT !.unhealthy = cl.pool.unhealthy, !.pool.pc = "sleep"]
    /\ UNCHANGED <<now, ServerVars>>

\* the sleep of loopHealthcheck is over (or Listen starts the loop)
loopHealthcheck ==
    /\ cl.pool.pc = "sleep"
    /\ cl.pool.round < MaxRounds
    /\ cl' = StartRound
    /\ UNCHANGED <<now, ServerVars>>

ClientNext ==
    \/ \E g \in Callers : sendOrCallbackErr(g)
    \/ \E g \in Goroutines : send_Add(g)
    \/ \E g \in Goroutines : send_WriteToUDP(g)
    \/ \E g \in Goroutines : send_WriteFails(g)
    \/ ServerReplies
    \/ handleResponse
    \/ checkCleanup
    \/ handleTimeouts
    \/ Listen
    \/ Healthcheck
    \/ healthcheck
    \/ assign_healthy
    \/ assign_unhealthy
    \/ loopHealthcheck
    \/ Tick

ClientSpec == Init /\ [][ClientNext]_vars

\* every id the client of the model can allocate
MessageIDs ==
    {Uint32(k) : k \in 1..(NumCallers * MaxOperations + MaxRounds * NumPoolServers)}

\* a pass of checkCleanup that visits the entry of messageID and finds it expired
checkCleanupOf(messageID) ==
    checkCleanup /\ messageID \in SeqToSet(cl.removeTheseKeys')

\* the clock advances; handleTimeouts, a goroutine of its own, takes what is
\* sent on TimedOutMessages; checkCleanup re-arms its timer at the end of
\* every pass, and the random order of the map range brings every entry
\* among the visited ones in some pass
LiveClientSpec ==
    /\ ClientSpec
    /\ WF_vars(Tick)
    /\ WF_vars(handleTimeouts)
    /\ \A messageID \in MessageIDs : WF_vars(checkCleanupOf(messageID))

\* the operation of goroutine g is in wg.Wait(), and the deadline of its
\* entry lies within the time the model covers
Waiting(g) ==
    /\ cl.op[g].pc = "wait"
    /\ cl.op[g].CreatedSecs + TimeoutSecs < MaxTime

\* the operation of goroutine g returned with a reply or with ErrMessageTimedOut
Returned(g) ==
    /\ cl.op[g].pc = "idle"
    /\ cl.op[g].called
    /\ cl.op[g].err \in {"nil", ErrReply, ErrMessageTimedOut}

\* C13: every client UDP operation (put, count, countNamespace, countServer,
\* healthcheck) that waits for its reply eventually returns, with the reply
\* or with ErrMessageTimedOut, whatever the interleaving of reply arrival,
\* entry expiry and cleanup passes.
C13_EveryOperationReturns ==
    \A g \in Goroutines : Waiting(g) ~> Returned(g)

\* Client.PendingRequests: messagesWaiting.Len()
PendingRequests == Cardinality(DOMAIN cl.cache)

\* the operation of goroutine g has not returned
InFlight(g) == cl.op[g].pc # "idle"

\* C15: when a client operation has returned (by reply, by Error reply, by
\* timeout or by immediate send error) the cache holds no entry registered by
\* it; so whenever no operation is in flight PendingRequests() is 0.
C15_NoEntryOfReturnedOperation ==
    /\ \A messageID \in DOMAIN cl.cache :
          LET cb == cl.cache[messageID].Callback
          IN  cl.op[cb.g].n = cb.n /\ InFlight(cb.g)
    /\ (\A g \in Goroutines : ~InFlight(g)) => PendingRequests = 0

C15_Witness ==
    /\ \A g \in Goroutines : ~InFlight(g)
    /\ \E g \in Callers : cl.op[g].registered /\ cl.op[g].err = "nil"
    /\ cl.op[0].registered /\ cl.op[0].err = ErrMessageTimedOut
    /\ PendingRequests = 0

\* C18: at any instant each configured server of the pool is in exactly one
\* of the lists healthy and unhealthy, never in both and never in neither.
C18_ExactlyOneList ==
    \A s \in PoolServers :
        (s \in SeqToSet(cl.healthy)) # (s \in SeqToSet(cl.unhealthy))

\* a round of the health check has just ended: both lists are assigned and
\* the loop sleeps
RoundEnded == cl.pool.pc = "sleep"

\* the servers whose answer to this round's probe was handled within the
\* client timeout
AnsweredInTime == {a.server : a \in {x \in cl.pool.answers : x.inTime}}

\* those among them that answered with the count, not with an 'E' reply
AnsweredCountInTime ==
    {a.server : a \in {x \in cl.pool.answers : x.inTime /\ x.Command # ResError}}

\* C19 as stated: after each health-check round the healthy list is exactly
\* the set of configured servers that answered that round's COUNT probe
\* within the client timeout, and the unhealthy list exactly the rest.
C19_HealthyAreThoseThatAnswered ==
    RoundEnded
    => /\ SeqToSet(cl.healthy) = AnsweredInTime
       /\ SeqToSet(cl.unhealthy) = PoolServers \ AnsweredInTime

\* C19, amended: after each health-check round the healthy list is exactly
\* the set of configured servers that answered that round's COUNT probe with
\* a reply other than an Error reply within the client timeout, and the
\* unhealthy list exactly the rest.
C19_HealthyAreThoseThatAnsweredWithoutError ==
    RoundEnded
    => /\ SeqToSet(cl.healthy) = AnsweredCountInTime
       /\ SeqToSet(cl.unhealthy) = PoolServers \ AnsweredCountInTime

C19_Witness ==
    /\ RoundEnded
    /\ cl.pool.round = MaxRounds
    /\ \E a \in cl.pool.answers : a.inTime /\ a.Command = ResError
    /\ cl.healthy # <<>>
    /\ cl.unhealthy # <<>>

\* the operation goroutine g started last kept to the rule of the healthy
\* list: with no healthy server when the server was to be taken it failed
\* with ErrNoHealthyServers, wrote no datagram and registered no callback;
\* otherwise the server it was sent to was in the healthy list then
KeptToHealthy(g) ==
    LET o == cl.op[g]
    IN  o.n > 0
        => IF o.chosenFrom = {}
           THEN /\ o.pc = "idle" /\ o.called /\ o.err = ErrNoHealthyServers
                /\ ~o.written /\ ~o.registered
                /\ \A messageID \in DOMAIN cl.cache :
                      cl.cache[messageID].Callback # [g |-> g, n |-> o.n]
           ELSE o.to \in o.chosenFrom

\* C20 as stated: every client UDP operation, Healthcheck among them, is
\* sent only to a server that is in the healthy list at the moment of
\* choice; with an empty healthy list it fails with ErrNoHealthyServers, no
\* datagram is sent and no waiting callback is registered.
C20_OnlyToHealthyServers == \A g \in Goroutines : KeptToHealthy(g)

\* C20, amended: the same of the operations that choose their server (Put,
\* Count, CountNamespace, CountServer); Healthcheck goes to the server it
\* is to probe.
C20_ChosenServerIsHealthy == \A g \in Callers : KeptToHealthy(g)

C20_Witness ==
    \E g \in Callers :
        /\ cl.op[g].written
        /\ cl.op[g].to \in cl.op[g].chosenFrom
        /\ cl.op[g].to \notin SeqToSet(cl.healthy)
        /\ cl.pool.pc = "sleep"

\* C29: Pull for an id with no pending entry returns ErrNoMessage and leaves
\* the cache unchanged; Pull for a pending id always removes the entry, and
\* returns its callback when the entry is not older than the timeout and
\* ErrMessageExpired otherwise; so a second Pull of the id returns
\* ErrNoMessage.
C29_PullRemovesOnce ==
    cl.last.op = "Pull"
    => LET id == cl.last.messageID
           before == cl.last.before
       IN  IF id \notin DOMAIN before
           THEN /\ cl.last.err = ErrNoMessage
                /\ ~cl.last.found
                /\ cl.cache = before
           ELSE /\ cl.cache = MapRemove(before, id)
                /\ Pull(cl.cache, id, now).err = ErrNoMessage
                /\ IF cl.last.at - before[id].CreatedSecs <= TimeoutSecs
                   THEN /\ cl.last.found
                        /\ cl.last.cb = before[id].Callback
                        /\ cl.last.err = "nil"
                   ELSE /\ ~cl.last.found
                        /\ cl.last.err = ErrMessageExpired

C29_Witness ==
    /\ cl.last.op = "Pull"
    /\ cl.last.messageID \in DOMAIN cl.last.before
    /\ cl.last.err = ErrMessageExpired
    /\ cl.last.before[cl.last.messageID].CreatedSecs = 0
    /\ DOMAIN cl.cache # {}

\* a pass of checkCleanup has ended: everything it had to send was received
PassEnded == cl.last.op = "checkCleanup" /\ cl.removeTheseKeys = <<>>

\* the entries the pass examined whose age exceeded the timeout
ExaminedAndOld ==
    {id \in cl.last.visited :
        cl.last.at - cl.last.before[id].CreatedSecs > TimeoutSecs}

\* the pass removed exactly the examined entries older than the timeout and
\* sent exactly their callbacks on TimedOutMessages
RemovedExaminedAndOld ==
    /\ cl.last.visited \subseteq DOMAIN cl.last.before
    /\ cl.cache = [id \in DOMAIN cl.last.before \ ExaminedAndOld |-> cl.last.before[id]]
    /\ Len(cl.last.pushed) = Cardinality(ExaminedAndOld)
    /\ \A id \in ExaminedAndOld :
          \E i \in DOMAIN cl.last.pushed :
              cl.last.pushed[i] = cl.last.before[id].Callback

SubtreeOf(t) == trees[1][wk[t].subtree]

\* worker t returns from Tree.Count, or from the last Tree.Count of Tree.Keys
ReturnsFromCount(t) ==
    /\ wk[t].pc \in {"Count_tree", "Keys_loop"}
    /\ wk'[t].pc \notin {"Count_tree", "Keys_loop"}

\* C25: when Count finds every timestamp of a key expired it removes the key
\* and returns 0, so that when Count or Keys returns the tree holds no key
\* with an empty timestamp list.
C25_NoEmptyListAfterCount ==
    [][\A t \in StoreThreads :
          ReturnsFromCount(t)
          => \A k \in DOMAIN trees'[1][wk[t].subtree] :
                 trees'[1][wk[t].subtree][k] # <<>>]_vars

\* every timestamp list of every tree is in non-decreasing order
ListsNonDecreasing ==
    \A ptr \in DOMAIN trees[1] : \A k \in DOMAIN trees[1][ptr] :
        \A i, j \in DOMAIN trees[1][ptr][k] :
            i <= j => trees[1][ptr][k][i] <= trees[1][ptr][k][j]

\* worker t returns from Tree.Put
ReturnsFromPut(t) == wk[t].pc = "Put_tree" /\ wk'[t].pc # "Put_tree"

\* the list Tree.Put of worker t leaves under its key
ListAfterPut(t) == trees'[1][wk[t].subtree][wk[t].key]

InsideKeys(t) == wk[t].pc = "Keys_loop"

\* C24: put, count, keys and match on one tree are mutually exclusive: while
\* an operation is between its first and its last access to the tree, no
\* other operation reads or modifies the key map of that tree.
C24_TreeOperationsExclusive ==
    [][\A t \in StoreThreads :
          InsideKeys(t) /\ wk'[t] = wk[t]
          => trees'[1][wk[t].subtree] = trees[1][wk[t].subtree]]_vars

\* --------------------------------------------------- the passes of runCleanup
\* the first floor(N / maxNamespacesDenom) names of the snapshot of the last pass
FirstOfSnapshot ==
    {hist.snapshot[i] : i \in 1..(Len(hist.snapshot) \div maxNamespacesDenom)}

\* C27: a cleanup pass that snapshots N namespaces sweeps at most
\* floor(N/D) of them, only the first floor(N/D) entries of its snapshot,
\* and removes only namespaces among those; when floor(N/D) < 1 it touches
\* no tree and removes nothing.
C27_SweepsFirstOfSnapshot ==
    /\ hist.swept \subseteq FirstOfSnapshot
    /\ hist.removed \subseteq hist.swept
    /\ Cardinality(hist.swept) <= Len(hist.snapshot) \div maxNamespacesDenom
    /\ Len(hist.snapshot) \div maxNamespacesDenom < 1
         => hist.swept = {} /\ hist.removed = {}
    /\ gc[1].pc \in {"Keys_loop", "remove"} => gc[1].ns \in hist.swept

C27_Witness ==
    /\ Len(hist.snapshot) = NumNamespaces
    /\ hist.removed = {hist.snapshot[1]}
    /\ hist.snapshot[1] \notin DOMAIN namespaces[1]
    /\ hist.snapshot[NumNamespaces] \in DOMAIN namespaces[1]

\* the steps of a pass after its snapshot
Cleanup_rest(s) ==
    \/ Cleanup_fetch(s)
    \/ Cleanup_range(s)
    \/ Cleanup_Keys_loop(s)
    \/ Cleanup_remove(s)

\* every order in which hashmap.Keys() can return the names
Snapshots == UNION {Orderings(S) : S \in SUBSET Namespaces}

\* a pass starts with the snapshot keys, while no request is in progress
runCleanup(keys) == Quiet(StoreThreads) /\ runCleanup_Keys(1, keys)

\* the server run sequentially, with the timer of runCleanup rearmed after
\* every pass without end
TimerNext ==
    \/ \E t \in StoreThreads :
         /\ Quiet(StoreThreads \ {t}) /\ gc[1].pc = "idle"
         /\ RequestWithin(t, MaxSeqRequests, NumKeys) \/ Worker(t)
    \/ \E keys \in Snapshots : runCleanup(keys)
    \/ Quiet(StoreThreads) /\ Cleanup_rest(1)
    \/ Tick

\* the clock runs, a started pass runs to its end, the timer fires again and
\* again, and no order of the map's keys is avoided for ever
TimerSpec ==
    /\ Init /\ [][TimerNext]_vars
    /\ WF_vars(Tick)
    /\ WF_vars(Quiet(StoreThreads) /\ Cleanup_rest(1))
    /\ \A keys \in Snapshots : SF_vars(runCleanup(keys))

\* every occurrence put into namespace ns has expired and no PUT can follow
ExpiredForGood(ns) ==
    /\ ns \in DOMAIN namespaces[1]
    /\ hist.reqs = MaxSeqRequests
    /\ \A t \in StoreThreads : wk[t].pc = "idle"
    /\ \A k \in Keys : hist.last[ns][k] = -1 \/ AllExpiredAt(ns, k, now)

\* C28: while cleanup is enabled, a namespace whose occurrences have all
\* expired and that gets no further PUT is eventually removed by a cleanup
\* pass, whatever the number of namespaces.
C28_ExpiredNamespaceRemoved ==
    \A ns \in Namespaces : ExpiredForGood(ns) ~> ns \notin DOMAIN namespaces[1]

\* ------------------------------------------------------ one TCP connection
\* bytes.TrimLeftFunc and bytes.TrimRightFunc with unicode.IsSpace
TrimLeft(b) ==
    LET keep == {i \in DOMAIN b : ~IsSpaceByte(b[i])}
    IN  IF keep = {} THEN <<>> ELSE SubSeq(b, Min(keep), Len(b))

TrimRight(b) ==
    LET keep == {i \in DOMAIN b : ~IsSpaceByte(b[i])}
    IN  IF keep = {} THEN <<>> ELSE SubSeq(b, 1, Max(keep))

HasSuffix(b, suffix) ==
    Len(b) >= Len(suffix) /\ SubSeq(b, Len(b) - Len(suffix) + 1, Len(b)) = suffix

\* reader.ReadBytes('\n') on what is left of a stream that ends with the
\* connection closed: the bytes up to and with the first line break, or the
\* rest of the stream with io.EOF
ReadBytes(stream) ==
    LET breaks == {i \in DOMAIN stream : stream[i] = 10}
    IN  IF breaks = {} THEN [line |-> stream, rest |-> <<>>, err |-> TRUE]
        ELSE [line |-> SubSeq(stream, 1, Min(breaks)),
              rest |-> SubSeq(stream, Min(breaks) + 1, Len(stream)),
              err |-> FALSE]

RECURSIVE ReadToStopSymbol(_, _)
\* the loop of ReadOneTcpMessage: lines are appended until the message ends
\* with the stop symbol or a read fails
ReadToStopSymbol(message, stream) ==
    IF HasSuffix(message, StopSymbol) THEN message
    ELSE LET r == ReadBytes(stream)
         IN  IF r.err THEN message
             ELSE ReadToStopSymbol(message \o r.line, r.rest)

\* ReadOneTcpMessage on a stream: the error returned, the message sent to the
\* channel, or the panic of message[0 : len(message)-len(StopSymbol)]
ReadOneTcpMessage(stream) ==
    LET first == ReadBytes(stream)
        message == ReadToStopSymbol(TrimLeft(first.line), first.rest)
    IN  IF first.err THEN [outcome |-> "err", message |-> <<>>]
        ELSE IF Len(message) < Len(StopSymbol)
        THEN [outcome |-> "panic", message |-> <<>>]
        ELSE [outcome |-> "queued",
              message |-> padRight(TrimRight(SubSeq(message, 1,
                                       Len(message) - Len(StopSymbol))),
                                   PacketSize)]

\* byte streams a TCP client may write before it closes the connection: a
\* frame b with the stop symbol, b alone, b cut short, and a few bytes
Streams(b) ==
    {b \o StopSymbol, b, SubSeq(b, 1, 40) \o <<10>>, SubSeq(b, 1, 40),
     <<>>, <<10>>, <<120, 10>>, <<120, 121, 122, 10>>, StopSymbol,
     <<120>> \o StopSymbol}

\* a sender connects and writes stream
AcceptTCP(cmd, key, f, stream) ==
    /\ udp.phase = "idle"
    /\ udp' = [udp EXCEPT !.phase = "stream", !.sender = "other", !.cmd = cmd,
                          !.id = f.id, !.ns = f.ns, !.value = f.value,
                          !.clientKey = key, !.datagram = stream, !.tcp = TRUE]
    /\ UNCHANGED StoreVars

\* handleTCPConnection: the first ReadOneTcpMessage of the connection
handleTCPConnection ==
    /\ udp.phase = "stream"
    /\ LET r == ReadOneTcpMessage(udp.datagram)
       IN  udp' = IF r.outcome = "queued"
                  THEN [udp EXCEPT !.phase = "queued", !.message = r.message]
                  ELSE IF r.outcome = "panic"
                  THEN [udp EXCEPT !.phase = "panic"]
                  ELSE [udp EXCEPT !.phase = "closed"]
    /\ UNCHANGED StoreVars

TcpNext ==
    \/ \E cmd \in SenderCommands, key \in SenderKeys, f \in SenderFields :
         \/ \E d \in Datagrams(SenderFrame(cmd, key, f)) :
               SendDatagram(cmd, key, f, d)
         \/ \E stream \in Streams(SenderFrame(cmd, key, f)) :
               AcceptTCP(cmd, key, f, stream)
    \/ readUDPFrames
    \/ handleTCPConnection
    \/ worker_message

\* one server and one sender, over UDP or over TCP
TcpSpec == ProtoInit /\ [][TcpNext]_vars

\* the worker has dealt with a message that is a valid PUT-REPLICATE
ValidPutReplicate ==
    LET r == ParsePacket(udp.message)
    IN  /\ ~r.isNil /\ r.err = NoErr
        /\ Validate(r.packet, udp.preSharedKey) = NoErr
        /\ r.packet.Command = CmdPutReplicate

\* C22: for every message a worker dequeues, other than a valid
\* PUT-REPLICATE, the worker sends exactly one reply, which carries the
\* message id of the request and goes back on the transport the request
\* arrived on.
C22_OneReplyOnSameTransport ==
    udp.phase = "handled" /\ ~ValidPutReplicate
    => /\ udp.reply # <<>>
       /\ Slice(udp.reply, spaceIndex2 + 1, spaceIndex3)
             = Slice(udp.message, spaceIndex2 + 1, spaceIndex3)
       /\ udp.via = IF udp.tcp THEN "tcp" ELSE "udp"

\* C23: no server task panics on any input: for every UDP datagram and every
\* TCP byte stream, also one shorter than a frame and one that ends before
\* the stop symbol, the read loops and the workers reply with an Error
\* packet or drop the input.
C23_NoTaskPanics == udp.phase # "panic"

\* ------------------------------------------------------------ Store.KeyMatch
\* Keys and patterns are strings, kept as sequences of their characters.
\* "default", "other" and "notexisting" of the client test
MatchNamespaces == {"default", "other"}
QueryNamespaces == MatchNamespaces \cup {"notexisting"}

\* "blah", "blat" and "xblah"
MatchKeys ==
    {<<"b", "l", "a", "h">>, <<"b", "l", "a", "t">>, <<"x", "b", "l", "a", "h">>}

\* "blah*", "*", "^bla*", "lat" and the ill-formed "bla("
MatchPatterns ==
    {<<"b", "l", "a", "h", "*">>, <<"*">>, <<"^", "b", "l", "a", "*">>,
     <<"l", "a", "t">>, <<"b", "l", "a", "(">>}

\* err.Error() of the parser: "error parsing regexp: missing closing ): "
\* and the quoted expression
ErrMissingParen(keyPattern) ==
    <<"error parsing regexp: missing closing ): ">> \o keyPattern

\* regexp.Compile(strings.ReplaceAll(keyPattern, "*", "(^|$|.+)")) for a
\* pattern of literal characters, "^", "*" and "(": the expression is kept as
\* the pattern, a "*" in it standing for the group (^|$|.+); an unclosed "("
\* is the error of the parser
Compile(keyPattern) ==
    IF \E i \in DOMAIN keyPattern : keyPattern[i] = "("
    THEN [re |-> <<>>, err |-> ErrMissingParen(keyPattern)]
    ELSE [re |-> keyPattern, err |-> <<>>]

RECURSIVE MatchAt(_, _, _, _)
\* the expression from its element j on matches k from offset pos on
MatchAt(re, j, k, pos) ==
    IF j > Len(re) THEN TRUE
    ELSE IF re[j] = "^" THEN pos = 0 /\ MatchAt(re, j + 1, k, pos)
    ELSE IF re[j] = "*"
    THEN \/ pos = 0 /\ MatchAt(re, j + 1, k, pos)
         \/ pos = Len(k) /\ MatchAt(re, j + 1, k, pos)
         \/ \E n \in 1..(Len(k) - pos) : MatchAt(re, j + 1, k, pos + n)
    ELSE /\ pos < Len(k) /\ k[pos + 1] = re[j]
         /\ MatchAt(re, j + 1, k, pos + 1)

\* Regexp.MatchString: the expression matches somewhere in k
MatchString(re, k) == \E pos \in 0..Len(k) : MatchAt(re, 1, k, pos)

\* Tree.KeyMatch that leaves out n.Count(k) > 0
TreeKeyMatchAnyCount(tr, keyPattern, t) ==
    LET c == Compile(keyPattern)
    IN  IF c.err # <<>> THEN [tree |-> tr, out |-> {c.err}]
        ELSE [tree |-> tr, out |-> {k \in DOMAIN tr : MatchString(c.re, k)}]

RECURSIVE CountEach(_, _, _)
\* n.Count(k) for every key of ks, and those with a count above 0
CountEach(tr, ks, t) ==
    IF ks = {} THEN [tree |-> tr, out |-> {}]
    ELSE LET k == CHOOSE x \in ks : TRUE
             c == TreeCount(tr, k, t)
             rest == CountEach(c.tree, ks \ {k}, t)
         IN  [tree |-> rest.tree,
              out |-> IF c.count > 0 THEN rest.out \cup {k} ELSE rest.out]

\* Tree.KeyMatch run alone at second t: the tree after it and the set of the
\* strings it returns
TreeKeyMatch(tr, keyPattern, t) ==
    LET c == Compile(keyPattern)
    IN  IF c.err # <<>> THEN [tree |-> tr, out |-> {c.err}]
        ELSE CountEach(tr, {k \in DOMAIN tr : MatchString(c.re, k)}, t)

\* Store.KeyMatch run alone
StoreKeyMatchAlone(ns, keyPattern) ==
    IF ns \notin DOMAIN namespaces[1]
    THEN [trees |-> trees, out |-> {}]
    ELSE LET ptr == namespaces[1][ns]
             r == TreeKeyMatch(trees[1][ptr], keyPattern, now)
         IN  [trees |-> [trees EXCEPT ![1][ptr] = r.tree], out |-> r.out]

MatchVars == <<wk, gc, peers, net, udp, hist>>

\* the keys of namespace ns with an occurrence that has not expired
LiveKeys(ns) ==
    IF ns \notin DOMAIN namespaces[1] THEN {}
    ELSE LET tr == trees[1][namespaces[1][ns]]
         IN  {k \in DOMAIN tr : \E i \in DOMAIN tr[k] : tr[k][i] > now}

MatchPut(ns, key) ==
    /\ SumOver([p \in DOMAIN trees[1] |-> EntriesOf(trees[1][p])], DOMAIN trees[1])
         < MaxMatchPuts
    /\ StorePutAlone(ns, key)
    /\ cl' = [cl EXCEPT !.last = [op |-> "Put"]]
    /\ UNCHANGED <<now, MatchVars>>

\* a Store.Count that fetches the tree of ns the way Store.Put does, storing
\* a new tree when there is none
StoreCountGetOrCreate(ns, entryKey) ==
    IF ns \in DOMAIN namespaces[1]
    THEN [namespaces |-> namespaces, trees |-> StoreCountAlone(ns, entryKey).trees,
          out |-> StoreCountAlone(ns, entryKey).count]
    ELSE LET ptr == Cardinality(DOMAIN trees[1]) + 1
         IN  [namespaces |-> [namespaces EXCEPT ![1] = MapPut(@, ns, ptr)],
              trees |-> [trees EXCEPT ![1] = MapPut(@, ptr, NewTree)],
              out |-> 0]

\* Store.Count run alone: the maps after it and the value returned
StoreCount(ns, entryKey) ==
    [namespaces |-> namespaces, trees |-> StoreCountAlone(ns, entryKey).trees,
     out |-> StoreCountAlone(ns, entryKey).count]

\* Store.CountEntries and Store.CountServerEntries run alone
StoreCountEntries(ns) ==
    [namespaces |-> namespaces, trees |-> StoreCountEntriesAlone(ns).trees,
     out |-> StoreCountEntriesAlone(ns).count]

StoreCountServerEntries ==
    [namespaces |-> namespaces, trees |-> StoreCountServerEntriesAlone.trees,
     out |-> StoreCountServerEntriesAlone.count]

\* a call that only reads the store is made and returns r
Queried(op, ns, r) ==
    /\ namespaces' = r.namespaces
    /\ trees' = r.trees
    /\ cl' = [cl EXCEPT !.last = [op |-> op, ns |-> ns, out |-> r.out]]
    /\ UNCHANGED <<now, MatchVars>>

MatchCount(ns, key) == Queried("Count", ns, StoreCount(ns, key))

MatchCountEntries(ns) == Queried("CountEntries", ns, StoreCountEntries(ns))

MatchCountServerEntries == Queried("CountServerEntries", "", StoreCountServerEntries)

KeyMatch(ns, keyPattern) ==
    LET r == StoreKeyMatchAlone(ns, keyPattern) IN
    /\ trees' = r.trees
    /\ cl' = [cl EXCEPT !.last = [op |-> "KeyMatch", ns |-> ns,
                                  keyPattern |-> keyPattern, out |-> r.out,
                                  found |-> ns \in DOMAIN namespaces[1],
                                  live |-> LiveKeys(ns),
                                  others |-> UNION {LiveKeys(o) :
                                                 o \in MatchNamespaces \ {ns}}]]
    /\ UNCHANGED <<now, namespaces, MatchVars>>

MatchNext ==
    \/ \E ns \in MatchNamespaces, key \in MatchKeys : MatchPut(ns, key)
    \/ \E ns \in QueryNamespaces, key \in MatchKeys : MatchCount(ns, key)
    \/ \E ns \in QueryNamespaces : MatchCountEntries(ns)
    \/ MatchCountServerEntries
    \/ \E ns \in QueryNamespaces, keyPattern \in MatchPatterns :
          KeyMatch(ns, keyPattern)
    \/ Tick

\* one store, its operations called one after the other
MatchSpec == Init /\ [][MatchNext]_vars

\* the keys of the namespace of the last KeyMatch that had an occurrence not
\* yet expired at the second of the call
LiveKeysBefore == cl.last.live

\* key k matches the pattern: the pattern is well formed and its expression
\* matches k
Matches(keyPattern, k) ==
    Compile(keyPattern).err = <<>> /\ MatchString(keyPattern, k)

StoreQueries == {"Count", "CountEntries", "CountServerEntries", "KeyMatch"}

\* C40: Count, CountEntries, CountServerEntries and KeyMatch never create a
\* namespace: on a namespace the store does not hold they return 0 (or no
\* key) and they leave the set of namespaces as it was.
C40_QueriesCreateNoNamespace ==
    [][now' = now /\ cl' # cl /\ cl'.last.op \in StoreQueries
       => /\ namespaces' = namespaces
          /\ cl'.last.op # "CountServerEntries"
               /\ cl'.last.ns \notin DOMAIN namespaces[1]
             => cl'.last.out = IF cl'.last.op = "KeyMatch" THEN {} ELSE 0]_vars

\* a Count of a namespace the store does not hold has returned 0 and the
\* store holds the one namespace it held
C40_Witness ==
    /\ cl.last.op = "Count"
    /\ cl.last.ns = "notexisting"
    /\ cl.last.out = 0
    /\ DOMAIN namespaces[1] = {"default"}


\* ------------------------------------------- a server with peers, frame by
\* frame: the frames of ProtoSpec arrive one after the other at a server
\* whose peer list holds NumPeers addresses
MaxFrames == 2
NumPeers == 2

PeerList == 2..(NumPeers + 1)

PeerInit ==
    /\ now = 0
    /\ namespaces = [s \in Servers |-> EmptyMap]
    /\ trees = [s \in Servers |-> EmptyMap]
    /\ wk = [t \in Threads |-> IdleWorker(NoReq)]
    /\ gc = [s \in Servers |-> IdleCleanup]
    /\ peers = [s \in Servers |-> NewServerWithPeers(1, {1} \cup PeerList)]
    /\ net = {}
    /\ cl = NewClient
    /\ udp \in {IdleFrame(k) : k \in ServerKeys}
    /\ hist = InitHist

\* the frame has been dealt with; the next one may be sent
NextFrame ==
    /\ udp.phase \in {"handled", "done"}
    /\ hist.sent + 1 < MaxFrames
    /\ udp' = [IdleFrame(udp.preSharedKey) EXCEPT
                  !.messageIDCounter = udp.messageIDCounter]
    /\ hist' = [hist EXCEPT !.sent = @ + 1]
    /\ UNCHANGED <<now, namespaces, trees, wk, gc, peers, net, cl>>

\* what the other senders send here: a frame as it was built, its first 81
\* bytes, or the frame with the delimiter after the message id overwritten
PeerCommands == {CmdPut, CmdPutReplicate, CmdCount}

PeerFields ==
    [id |-> Uint32ToBytes(Uint32(7)), ns |-> SampleNamespace, value |-> SampleValue]

PeerDatagrams(b) ==
    {b, SubSeq(b, 1, 81), [b EXCEPT ![spaceIndex2 + 1] = 120]}

PeerNext ==
    \/ \E cmd \in ClientCommands, key \in SenderKeys : ClientCall(cmd, key)
    \/ \E cmd \in PeerCommands, key \in SenderKeys :
         \E d \in PeerDatagrams(SenderFrame(cmd, key, PeerFields)) :
            SendDatagram(cmd, key, PeerFields, d)
    \/ readUDPFrames
    \/ worker_message
    \/ handleResponsesForever
    \/ NextFrame

PeerSpec == PeerInit /\ [][PeerNext]_vars

\* ParsePacket returns an error for the message, or the tag the message
\* carries is not the one that recomputes under the server's key
Rejected(message, preSharedKey) ==
    LET r == ParsePacket(message)
    IN  \/ r.isNil
        \/ r.err # NoErr
        \/ r.packet.Hash # Uint64FromBytes(HashPacket(r.packet, preSharedKey))

\* C36: a frame the server rejects (parse error or tag mismatch) never
\* changes the store and is never replicated to peers: the worker's step on
\* it leaves the namespaces, the trees and the datagrams sent to the peers as
\* they were.
C36_RejectedFrameChangesNothing ==
    [][udp.phase = "queued" /\ udp'.phase # "queued"
         /\ Rejected(udp.message, udp.preSharedKey)
       => namespaces' = namespaces /\ trees' = trees /\ net' = net]_vars

\* the second frame, a PUT whose tag does not recompute, was answered with an
\* Error reply by a server whose store and peers hold the first frame's PUT
C36_Witness ==
    /\ udp.phase = "handled"
    /\ hist.sent = 1
    /\ ParsePacket(udp.message).err = NoErr
    /\ ParsePacket(udp.message).packet.Command = CmdPut
    /\ Rejected(udp.message, udp.preSharedKey)
    /\ IsErrorReply(udp.reply)
    /\ udp.call = NoCall
    /\ DOMAIN namespaces[1] # {}
    /\ net # {}

\* the worker has handled a PUT frame
PutHandled ==
    /\ udp.phase \in {"handled", "done"}
    /\ udp.call.op = "Put"
    /\ ParsePacket(udp.message).packet.Command = CmdPut

\* the PUT-REPLICATE datagrams of the current frame written to peer
ReplicatesTo(peer) ==
    {d \in net : d.to = peer /\ d.cmd = CmdPutReplicate /\ d.id = hist.sent}

\* C32: after a successful PUT on a server with a non-empty peer list one
\* PUT-REPLICATE is sent to each peer, whatever writes failed, and the PUT
\* reply is sent to the client.
C32_OneReplicateToEachPeer ==
    PutHandled
    => /\ Len(udp.reply) = PacketSize /\ At(udp.reply, 0) = CmdPut
       /\ \A peer \in peers[1] : Cardinality(ReplicatesTo(peer)) = 1

\* what holds of the code: the client is answered, no peer gets more than one
\* PUT-REPLICATE, and a peer gets none only if a peer before it got none
C32_RepliedAndPrefixReplicated ==
    PutHandled
    => /\ Len(udp.reply) = PacketSize /\ At(udp.reply, 0) = CmdPut
       /\ \A peer \in peers[1] :
             /\ Cardinality(ReplicatesTo(peer)) <= 1
             /\ \A q \in peers[1] :
                   q < peer /\ ReplicatesTo(q) = {} => ReplicatesTo(peer) = {}

\* a PUT was answered and replicated to the first peer only
C32_Witness ==
    /\ PutHandled
    /\ ReplicatesTo(2) # {}
    /\ ReplicatesTo(3) = {}


\* ------------------------------------------ replies from anywhere: the
\* client's socket is an unconnected UDP socket, and handleResponsesForever
\* takes the datagrams of every remote address
ForgedCommands == {CmdPut, CmdCount, ResError}

\* while the client waits, a host that is not the server writes a reply
\* frame with the pending message id, signed with key, to the client's
\* socket; its data value is "x" (the text of an Error reply is never empty
\* here, since errors.New("") is an error too and NoErr stands for nil)
ForgedReply(cmd, key) ==
    /\ udp.phase = "wire"
    /\ udp.sender = "client"
    /\ udp' = [udp EXCEPT
                  !.phase = "handled",
                  !.via = "forged",
                  !.reply = PacketBytes(NewPacketFromParts(cmd, udp.id, udp.ns,
                                                           <<120>>, key)).out]
    /\ UNCHANGED StoreVars

ReplyNext ==
    \/ \E cmd \in ClientCommands, key \in SenderKeys : ClientCall(cmd, key)
    \/ \E cmd \in ForgedCommands, key \in SenderKeys : ForgedReply(cmd, key)
    \/ readUDPFrames
    \/ worker_message
    \/ handleResponsesForever

ReplySpec == ProtoInit /\ [][ReplyNext]_vars

\* the callback was called with a nil error
CompletedSuccessfully == udp.phase = "done" /\ udp.cbCalled /\ udp.cbErr = NoErr

\* C39: the client completes a pending request successfully only with a
\* reply whose authentication tag recomputes under the client's preshared
\* key.
C39_SuccessOnlyWithValidTag ==
    CompletedSuccessfully
    => Validate(ParsePacket(ReadFromUDP(udp.reply)).packet, udp.clientKey) = NoErr

\* what holds of the code: the reply carried the pending message id and one
\* of the commands C, P, N, S
C39_SuccessWithPendingIdAndCommand ==
    CompletedSuccessfully
    => LET packet == ParsePacket(ReadFromUDP(udp.reply)).packet
       IN  /\ packet.MessageIDBytes = udp.id
           /\ packet.Command \in ClientCommands

\* a request was completed successfully by a reply that was not the server's
C39_Witness == CompletedSuccessfully /\ udp.via = "forged"


\* C37: for every client request the callback is invoked at most once, over
\* all the paths that can fire it and in every interleaving of them: no
\* callback runs a second time (its second wg.Done() is the fault recorded).
C37_CallbackAtMostOnce == "sync: negative WaitGroup counter" \notin cl.faults


\* --------------------------------- the cache with its receiver and Dispose
\* checkCleanup, statement by statement after the scan, the receive loop of
\* handleTimeouts with the callback it runs, and Dispose, which takes no lock
ErrSendOnClosed == "send on closed channel"

\* the program has not panicked
Running == cl.faults = {}

\* checkCleanup from its test of rc.disposed to the end of the first loop; a
\* pass that finds nothing unlocks and re-arms the timer
checkCleanup_scan ==
    /\ Running
    /\ ~cl.disposed
    /\ CacheUnlocked
    /\ \E scan \in Scans(cl.cache, now) :
          cl' = [cl EXCEPT !.removeTheseKeys = scan.removeTheseKeys,
                           !.last = [op |-> "checkCleanup"]]
    /\ UNCHANGED <<now, ServerVars>>

\* the second loop up to the send: cb is read, the entry is deleted, and
\* rc.disposed is tested
checkCleanup_delete ==
    /\ Running
    /\ cl.removeTheseKeys # <<>>
    /\ cl.sending = 0
    /\ LET messageID == Head(cl.removeTheseKeys)
           c == [cl EXCEPT !.cache = MapRemove(@, messageID)]
       IN  IF ~cl.disposed
           THEN cl' = [c EXCEPT !.sending = cl.cache[messageID].Callback]
           ELSE cl' = [c EXCEPT !.removeTheseKeys = Tail(@)]
    /\ UNCHANGED <<now, ServerVars>>

\* rc.TimedOutMessages <- cb on the unbuffered channel: it completes when the
\* receive loop is at its receive, and panics when the channel is closed
checkCleanup_send ==
    /\ Running
    /\ cl.sending # 0
    /\ IF cl.closed
       THEN cl' = [cl EXCEPT !.faults = @ \cup {ErrSendOnClosed}]
       ELSE /\ cl.timedOutCallback = 0
            /\ cl' = [cl EXCEPT !.timedOutCallback = cl.sending,
                                !.sending = 0,
                                !.removeTheseKeys = Tail(@)]
    /\ UNCHANGED <<now, ServerVars>>

\* handleTimeouts: timedOutCallback([]byte{}, ErrMessageTimedOut) returns and
\* the loop is at its receive again
handleTimeouts_returns ==
    /\ Running
    /\ cl.timedOutCallback # 0
    /\ cl' = [cl EXCEPT !.timedOutCallback = 0]
    /\ UNCHANGED <<now, ServerVars>>

\* Dispose: rc.disposed = true
Dispose_disposed ==
    /\ Running
    /\ ~cl.disposed
    /\ cl' = [cl EXCEPT !.disposed = TRUE]
    /\ UNCHANGED <<now, ServerVars>>

\* Dispose: close(rc.TimedOutMessages)
Dispose_close ==
    /\ Running
    /\ cl.disposed
    /\ ~cl.closed
    /\ cl' = [cl EXCEPT !.closed = TRUE]
    /\ UNCHANGED <<now, ServerVars>>

DisposeNext ==
    \/ \E messageID \in CacheIds, cb \in Callbacks : Running /\ CacheAdd(messageID, cb)
    \/ \E messageID \in CacheIds : Running /\ CachePull(messageID)
    \/ checkCleanup_scan
    \/ checkCleanup_delete
    \/ checkCleanup_send
    \/ handleTimeouts_returns
    \/ Dispose_disposed
    \/ Dispose_close
    \/ Tick

DisposeSpec == Init /\ [][DisposeNext]_vars

\* C35: in every interleaving of dispose() with a cleanup pass, no callback
\* is pushed onto the timed-out channel after the channel has been closed.
C35_NoPushAfterClose == ErrSendOnClosed \notin cl.faults

\* C31: while a timed-out callback is executing, the cleanup pass is not
\* held up and add and pull are not blocked: the pass does not wait, with
\* the lock of the cache taken, to hand over its next callback.
C31_SlowCallbackStallsNothing ==
    cl.timedOutCallback # 0 => cl.sending = 0


\* ------------------------------------------------ the server from Listen to
\* Close: the UDP read loop, the TCP accept loop, the readers of the accepted
\* connections and the workers around the channel messageProcessing, with
\* clients that send datagrams, connect, write frames and disconnect. Here
\* net holds the server's flag, channel and sockets, and wk the position of
\* every goroutine.
NumCPU == 1
NumConnections == 1
MaxInputs == 2

Connections == 1..NumConnections
\* setupWorkers: for w := 0; w <= numWorkers; w++
Workers == 0..NumCPU

\* the state after NewServer and Listen
ShutdownInit ==
    /\ now = 0
    /\ namespaces = [s \in Servers |-> EmptyMap]
    /\ trees = [s \in Servers |-> EmptyMap]
    /\ gc = [s \in Servers |-> IdleCleanup]
    /\ peers = [s \in Servers |-> {}]
    /\ cl = NewClient
    /\ udp = NoFrame
    /\ hist = InitHist
    /\ wk = [Close |-> "idle",
             readUDPFrames |-> "disposed",
             ReadTCPFrames |-> "disposed",
             handleTCPConnection |-> [c \in Connections |-> "-"],
             worker |-> [w \in Workers |-> "range"]]
    /\ net = [disposed |-> FALSE,              \* Server.disposed
              cleanupServiceEnabled |-> TRUE,
              messageProcessing |-> 0,         \* messages in the channel
              closed |-> FALSE,                \* the channel has been closed
              conn |-> "open",                 \* the UDP socket
              datagrams |-> 0,                 \* datagrams the socket holds
              tcpConn |-> "open",              \* the TCP listener
              backlog |-> {},                  \* connections not yet accepted
              frames |-> [c \in Connections |-> 0],   \* frames written, unread
              eof |-> [c \in Connections |-> FALSE],  \* the client has closed
              inputs |-> 0,
              faults |-> {}]

ShutdownVars == <<now, namespaces, trees, gc, peers, cl, udp, hist>>

\* no goroutine has panicked
ServerRunning == net.faults = {}

\* Close: the test of s.disposed, s.disposed = true, store.DisableCleanup()
Close_disposed ==
    /\ ServerRunning
    /\ wk.Close = "idle"
    /\ IF net.disposed
       THEN wk' = [wk EXCEPT !.Close = "done"] /\ UNCHANGED net
       ELSE /\ net' = [net EXCEPT !.disposed = TRUE,
                                  !.cleanupServiceEnabled = FALSE]
            /\ wk' = [wk EXCEPT !.Close = "messageProcessing"]
    /\ UNCHANGED ShutdownVars

\* Close: close(s.messageProcessing)
Close_messageProcessing ==
    /\ ServerRunning
    /\ wk.Close = "messageProcessing"
    /\ net' = [net EXCEPT !.closed = TRUE]
    /\ wk' = [wk EXCEPT !.Close = "conn"]
    /\ UNCHANGED ShutdownVars

\* Close: s.conn.Close()
Close_conn ==
    /\ ServerRunning
    /\ wk.Close = "conn"
    /\ net' = [net EXCEPT !.conn = "closed"]
    /\ wk' = [wk EXCEPT !.Close = "tcpConn"]
    /\ UNCHANGED ShutdownVars

\* Close: s.tcpConn.Close(), the listener; Close returns
Close_tcpConn ==
    /\ ServerRunning
    /\ wk.Close = "tcpConn"
    /\ net' = [net EXCEPT !.tcpConn = "closed"]
    /\ wk' = [wk EXCEPT !.Close = "done"]
    /\ UNCHANGED ShutdownVars

Close ==
    Close_disposed \/ Close_messageProcessing \/ Close_conn \/ Close_tcpConn

\* the send on the channel of capacity NumCPU by a goroutine that goes on at
\* next: it panics if the channel is closed and waits while it is full
SendToChannel(next) ==
    IF net.closed
    THEN net' = [net EXCEPT !.faults = @ \cup {ErrSendOnClosed}] /\ UNCHANGED wk
    ELSE /\ net.messageProcessing < NumCPU
         /\ net' = [net EXCEPT !.messageProcessing = @ + 1]
         /\ wk' = next

\* readUDPFrames: if s.disposed { break }
readUDPFrames_disposed ==
    /\ ServerRunning
    /\ wk.readUDPFrames = "disposed"
    /\ wk' = [wk EXCEPT !.readUDPFrames =
                            IF net.disposed THEN "exit" ELSE "ReadFromUDP"]
    /\ UNCHANGED <<net, ShutdownVars>>

\* readUDPFrames: ReadFromUDP returns a datagram, or an error once the
\* socket is closed (continue)
readUDPFrames_ReadFromUDP ==
    /\ ServerRunning
    /\ wk.readUDPFrames = "ReadFromUDP"
    /\ IF net.conn = "closed"
       THEN wk' = [wk EXCEPT !.readUDPFrames = "disposed"] /\ UNCHANGED net
       ELSE /\ net.datagrams > 0
            /\ net' = [net EXCEPT !.datagrams = @ - 1]
            /\ wk' = [wk EXCEPT !.readUDPFrames = "send"]
    /\ UNCHANGED ShutdownVars

\* readUDPFrames: s.messageProcessing <- &rawmessage.RawMessage{...}
readUDPFrames_send ==
    /\ ServerRunning
    /\ wk.readUDPFrames = "send"
    /\ SendToChannel([wk EXCEPT !.readUDPFrames = "disposed"])
    /\ UNCHANGED ShutdownVars

readUDPFrames_loop ==
    readUDPFrames_disposed \/ readUDPFrames_ReadFromUDP \/ readUDPFrames_send

\* ReadTCPFrames: if s.disposed { break }
ReadTCPFrames_disposed ==
    /\ ServerRunning
    /\ wk.ReadTCPFrames = "disposed"
    /\ wk' = [wk EXCEPT !.ReadTCPFrames =
                            IF net.disposed THEN "exit" ELSE "AcceptTCP"]
    /\ UNCHANGED <<net, ShutdownVars>>

\* ReadTCPFrames: AcceptTCP returns a connection and go handleTCPConnection,
\* or an error once the listener is closed (continue)
ReadTCPFrames_AcceptTCP ==
    /\ ServerRunning
    /\ wk.ReadTCPFrames = "AcceptTCP"
    /\ IF net.tcpConn = "closed"
       THEN wk' = [wk EXCEPT !.ReadTCPFrames = "disposed"] /\ UNCHANGED net
       ELSE \E c \in net.backlog :
               /\ net' = [net EXCEPT !.backlog = @ \ {c}]
               /\ wk' = [wk EXCEPT !.ReadTCPFrames = "disposed",
                                   !.handleTCPConnection[c] = "ReadBytes"]
    /\ UNCHANGED ShutdownVars

ReadTCPFrames_loop == ReadTCPFrames_disposed \/ ReadTCPFrames_AcceptTCP

\* handleTCPConnection, ReadOneTcpMessage: the reads return a frame with its
\* stop symbol, or io.EOF once the client has closed (break, conn.Close())
ReadOneTcpMessage_ReadBytes(c) ==
    /\ ServerRunning
    /\ wk.handleTCPConnection[c] = "ReadBytes"
    /\ IF net.frames[c] > 0
       THEN /\ net' = [net EXCEPT !.frames[c] = @ - 1]
            /\ wk' = [wk EXCEPT !.handleTCPConnection[c] = "send"]
       ELSE /\ net.eof[c]
            /\ wk' = [wk EXCEPT !.handleTCPConnection[c] = "exit"]
            /\ UNCHANGED net
    /\ UNCHANGED ShutdownVars

\* ReadOneTcpMessage: sendToChannel <- &RawMessage{...}
ReadOneTcpMessage_send(c) ==
    /\ ServerRunning
    /\ wk.handleTCPConnection[c] = "send"
    /\ SendToChannel([wk EXCEPT !.handleTCPConnection[c] = "ReadBytes"])
    /\ UNCHANGED ShutdownVars

handleTCPConnection_loop(c) ==
    ReadOneTcpMessage_ReadBytes(c) \/ ReadOneTcpMessage_send(c)

\* Server.worker: for m := range messages; the message is handled, and the
\* loop ends when the channel is closed and empty
worker_range(w) ==
    /\ ServerRunning
    /\ wk.worker[w] = "range"
    /\ IF net.messageProcessing > 0
       THEN net' = [net EXCEPT !.messageProcessing = @ - 1] /\ UNCHANGED wk
       ELSE /\ net.closed
            /\ wk' = [wk EXCEPT !.worker[w] = "exit"]
            /\ UNCHANGED net
    /\ UNCHANGED ShutdownVars

\* the clients: a datagram reaches the open UDP socket
ClientDatagram ==
    /\ ServerRunning
    /\ net.inputs < MaxInputs
    /\ net.conn = "open"
    /\ net' = [net EXCEPT !.datagrams = @ + 1, !.inputs = @ + 1]
    /\ UNCHANGED <<wk, ShutdownVars>>

\* a client connects to the open listener
ClientDial(c) ==
    /\ ServerRunning
    /\ net.tcpConn = "open"
    /\ wk.handleTCPConnection[c] = "-"
    /\ c \notin net.backlog
    /\ ~net.eof[c]
    /\ net' = [net EXCEPT !.backlog = @ \cup {c}]
    /\ UNCHANGED <<wk, ShutdownVars>>

\* a client writes a frame and its stop symbol on its connection
ClientFrame(c) ==
    /\ ServerRunning
    /\ net.inputs < MaxInputs
    /\ c \in net.backlog \/ wk.handleTCPConnection[c] \in {"ReadBytes", "send"}
    /\ ~net.eof[c]
    /\ net' = [net EXCEPT !.frames[c] = @ + 1, !.inputs = @ + 1]
    /\ UNCHANGED <<wk, ShutdownVars>>

\* a client closes its connection
ClientHangsUp(c) ==
    /\ ServerRunning
    /\ c \in net.backlog \/ wk.handleTCPConnection[c] \in {"ReadBytes", "send"}
    /\ ~net.eof[c]
    /\ net' = [net EXCEPT !.eof[c] = TRUE]
    /\ UNCHANGED <<wk, ShutdownVars>>

ShutdownNext ==
    \/ Close
    \/ readUDPFrames_loop
    \/ ReadTCPFrames_loop
    \/ \E c \in Connections : handleTCPConnection_loop(c)
    \/ \E w \in Workers : worker_range(w)
    \/ ClientDatagram
    \/ \E c \in Connections : ClientDial(c) \/ ClientFrame(c) \/ ClientHangsUp(c)

ShutdownSpec == ShutdownInit /\ [][ShutdownNext]_vars

\* the same with every goroutine of the server scheduled again and again,
\* and a Close that was called running to its end; the clients owe nothing
LiveShutdownSpec ==
    /\ ShutdownSpec
    /\ WF_vars(wk.Close # "idle" /\ Close)
    /\ WF_vars(readUDPFrames_loop)
    /\ WF_vars(ReadTCPFrames_loop)
    /\ \A c \in Connections : WF_vars(handleTCPConnection_loop(c))
    /\ \A w \in Workers : WF_vars(worker_range(w))

\* C38: no task ever sends on the server's message channel after close() has
\* closed it, in every interleaving of close() with the UDP read loop and
\* with the per-connection TCP readers.
C38_NoSendOnClosedChannel == ErrSendOnClosed \notin net.faults

\* every goroutine of the server has returned (or the process has ended)
Terminated(pc) == pc \in {"exit", "-"}

AllTasksTerminated ==
    \/ ~ServerRunning
    \/ /\ Terminated(wk.readUDPFrames)
       /\ Terminated(wk.ReadTCPFrames)
       /\ \A c \in Connections : Terminated(wk.handleTCPConnection[c])
       /\ \A w \in Workers : Terminated(wk.worker[w])

\* C33: after close() every server task eventually terminates.
C33_EveryTaskTerminates == (wk.Close = "done") ~> AllTasksTerminated

\* the tasks the claim lists do end: the UDP read loop, the accept loop and
\* the workers (or the process has ended)
C33_LoopsAndWorkersTerminate ==
    (wk.Close = "done")
    ~> \/ ~ServerRunning
       \/ /\ Terminated(wk.readUDPFrames)
          /\ Terminated(wk.ReadTCPFrames)
          /\ \A w \in Workers : Terminated(wk.worker[w])


\* ------------------------------------------ the client's TCP operations
\* (KeyMatch, ListNamespaces): _sendTCP with the goroutine readOneMessage it
\* starts, the context's timer, and a server that replies, stays silent or
\* hangs up. Here cl holds the locals of _sendTCP and the pool.
MaxTcpOperations == 2

ErrNoHealthyTCPServers == "no healthy tcp dracula servers"
ErrBadOutputSize == "unexpected output size"
ErrEOF == "EOF"

ServerBehaviours == {"replies", "silent", "hangsUp"}

NoTcpOperation ==
    [pc |-> "idle",            \* the caller, in _sendTCP
     readOneMessage |-> "-",   \* the goroutine readOneMessage
     key |-> 0,                \* key, the connection taken from the pool
     conn |-> 0,               \* the variable conn; 0 is nil
     ctxDone |-> FALSE,        \* _ctx is cancelled or past its deadline
     resChan |-> "-",          \* "open" after make, "closed" after close
     res |-> "-",              \* the message received from resChan
     server |-> "-"]           \* what the server does with the request

TcpClientInit ==
    /\ now = 0
    /\ namespaces = [s \in Servers |-> EmptyMap]
    /\ trees = [s \in Servers |-> EmptyMap]
    /\ wk = [t \in Threads |-> IdleWorker(NoReq)]
    /\ gc = [s \in Servers |-> IdleCleanup]
    /\ peers = [s \in Servers |-> {}]
    /\ net = {}
    /\ udp = NoFrame
    /\ hist = InitHist
    /\ cl = [op |-> NoTcpOperation,
             n |-> 0,                 \* operations started
             dialed |-> 0,            \* connections dialed
             tcpPool |-> {},          \* the connections sync.Pool holds
             tcpPoolMap |-> {},
             closed |-> {},           \* connections the client has closed
             called |-> <<>>,         \* cb(b, e) calls: <<operation, b, e>>
             faults |-> {}]

TcpClientVars == <<now, namespaces, trees, wk, gc, peers, net, udp, hist>>

TcpClientRunning == cl.faults = {}

\* cb(b, e) of the operation in progress
TcpCalled(c, b, e) == [c EXCEPT !.called = Append(@, <<c.n, b, e>>)]

\* the deferred calls of _sendTCP, last first: cancel(), close(resChan) if it
\* was made, and the function that returns conn to the pool or, if conn is
\* nil, deletes key from tcpPoolMap
TcpReturn(c) ==
    [c EXCEPT !.op.pc = "idle",
              !.op.ctxDone = IF c.op.resChan = "-" THEN @ ELSE TRUE,
              !.op.resChan = IF @ = "-" THEN "-" ELSE "closed",
              !.tcpPool = IF c.op.conn = 0 THEN @ ELSE @ \cup {c.op.conn},
              !.tcpPoolMap = IF c.op.conn = 0 THEN @ \ {c.op.key} ELSE @]

\* tcpPool.Get(): a pooled connection, or New: a dialed one, or nil when the
\* dial fails
TcpPoolGet ==
    {[conn |-> k, tcpPool |-> cl.tcpPool \ {k}, dialed |-> cl.dialed] :
        k \in cl.tcpPool}
    \cup (IF cl.tcpPool = {}
          THEN {[conn |-> cl.dialed + 1, tcpPool |-> {}, dialed |-> cl.dialed + 1],
                [conn |-> 0, tcpPool |-> {}, dialed |-> cl.dialed]}
          ELSE {})

\* _sendTCP from its start to go readOneMessage(_ctx); packet.Bytes() is
\* code that is not at hand and either returns the bytes or an error
sendTCP_Write ==
    /\ TcpClientRunning
    /\ cl.op.pc = "idle"
    /\ cl.op.readOneMessage \in {"-", "exit"}
    /\ cl.n < MaxTcpOperations
    /\ \E got \in TcpPoolGet, bytesOk \in BOOLEAN, server \in ServerBehaviours :
          LET c == [cl EXCEPT !.n = @ + 1, !.tcpPool = got.tcpPool,
                              !.dialed = got.dialed,
                              !.tcpPoolMap = IF got.conn = 0 THEN @
                                             ELSE @ \cup {got.conn},
                              !.op = [NoTcpOperation EXCEPT !.key = got.conn,
                                                            !.conn = got.conn]]
          IN  IF got.conn = 0
              THEN cl' = TcpReturn(TcpCalled(c, "", ErrNoHealthyTCPServers))
              ELSE IF ~bytesOk
              THEN cl' = TcpReturn(TcpCalled(c, "", ErrBadOutputSize))
              ELSE IF got.conn \in cl.closed
              THEN \* conn.Write fails: cb, conn = nil
                   cl' = TcpReturn(TcpCalled([c EXCEPT !.op.conn = 0], "", ErrWrite))
              ELSE cl' = [c EXCEPT !.op.pc = "receive",
                                   !.op.resChan = "open",
                                   !.op.readOneMessage = "select",
                                   !.op.server = server]
    /\ UNCHANGED TcpClientVars

\* context.WithTimeout(context.Background(), 5*time.Second): the deadline
\* passes
ctxDeadline ==
    /\ TcpClientRunning
    /\ cl.op.resChan = "open"
    /\ ~cl.op.ctxDone
    /\ now < MaxTime
    /\ now' = now + 1
    /\ cl' = [cl EXCEPT !.op.ctxDone = TRUE]
    /\ UNCHANGED <<namespaces, trees, wk, gc, peers, net, udp, hist>>

\* readOneMessage: the select at the top of its loop; on ctx.Done() the
\* connection is closed and the timeout message is built
readOneMessage_select ==
    /\ TcpClientRunning
    /\ cl.op.readOneMessage = "select"
    /\ IF cl.op.ctxDone
       THEN cl' = [cl EXCEPT !.op.readOneMessage = "sendTimedOut",
                             !.closed = IF cl.op.conn = 0 THEN @
                                        ELSE @ \cup {cl.op.conn}]
       ELSE cl' = [cl EXCEPT !.op.readOneMessage = "ReadBytes"]
    /\ UNCHANGED TcpClientVars

\* readOneMessage in ReadOneTcpMessage: reader.ReadBytes returns when the
\* server has written its reply or has closed the connection, and not before
readOneMessage_ReadBytes ==
    /\ TcpClientRunning
    /\ cl.op.readOneMessage = "ReadBytes"
    /\ cl.op.server \in {"replies", "hangsUp"}
    /\ cl' = [cl EXCEPT !.op.readOneMessage =
                            IF cl.op.server = "replies" THEN "sendReply"
                            ELSE "sendError"]
    /\ UNCHANGED TcpClientVars

\* a send of readOneMessage on resChan, which is unbuffered: it panics when
\* the channel is closed, and is taken by the caller's res := <-resChan
readOneMessage_send ==
    /\ TcpClientRunning
    /\ cl.op.readOneMessage \in {"sendReply", "sendError", "sendTimedOut"}
    /\ IF cl.op.resChan = "closed"
       THEN cl' = [cl EXCEPT !.faults = @ \cup {ErrSendOnClosed}]
       ELSE /\ cl.op.pc = "receive"
            /\ cl' = [cl EXCEPT
                         !.op.pc = "parse",
                         !.op.res = IF cl.op.readOneMessage = "sendReply" THEN "reply"
                                    ELSE IF cl.op.readOneMessage = "sendError" THEN ErrEOF
                                    ELSE ErrMessageTimedOut,
                         !.op.readOneMessage =
                             IF cl.op.readOneMessage = "sendReply" THEN "exit"
                             ELSE IF cl.op.readOneMessage = "sendError" THEN "select"
                             ELSE "nil"]
    /\ UNCHANGED TcpClientVars

\* readOneMessage after the send of the timeout message: conn = nil, return
readOneMessage_nil ==
    /\ TcpClientRunning
    /\ cl.op.readOneMessage = "nil"
    /\ cl' = [cl EXCEPT !.op.readOneMessage = "exit", !.op.conn = 0]
    /\ UNCHANGED TcpClientVars

\* _sendTCP after res := <-resChan: the message is parsed and the callback
\* is called with its data value and a nil error; then the deferred calls
sendTCP_parse ==
    /\ TcpClientRunning
    /\ cl.op.pc = "parse"
    /\ cl' = TcpReturn(TcpCalled(cl, cl.op.res, "nil"))
    /\ UNCHANGED TcpClientVars

readOneMessage ==
    \/ readOneMessage_select
    \/ readOneMessage_ReadBytes
    \/ readOneMessage_send
    \/ readOneMessage_nil

TcpClientNext ==
    \/ sendTCP_Write
    \/ ctxDeadline
    \/ readOneMessage
    \/ sendTCP_parse

TcpClientSpec == TcpClientInit /\ [][TcpClientNext]_vars

\* the same with the goroutines scheduled again and again and a timer that
\* fires
LiveTcpClientSpec ==
    /\ TcpClientSpec
    /\ WF_vars(ctxDeadline)
    /\ WF_vars(readOneMessage)
    /\ WF_vars(sendTCP_parse)

\* the operation in progress was written to a server that does not reply,
\* and the read timeout has elapsed
TimeoutElapsedOnSilentServer ==
    /\ cl.op.pc = "receive"
    /\ cl.op.server = "silent"
    /\ cl.op.ctxDone

\* the operation has returned after a call of its callback that carries the
\* timeout, with its connection closed and in no pool
CompletedTimedOut(n, key) ==
    /\ cl.n > n \/ cl.op.pc = "idle"
    /\ \E i \in DOMAIN cl.called :
          /\ cl.called[i][1] = n
          /\ ErrMessageTimedOut \in {cl.called[i][2], cl.called[i][3]}
    /\ key \in cl.closed
    /\ key \notin cl.tcpPool

\* C34: a client TCP operation sent to a server that accepts the connection
\* but never replies completes once the read timeout has elapsed, with a
\* timed-out result; the connection is then closed and is not returned to
\* the pool.
C34_SilentServerTimesOut ==
    \A n \in 1..MaxTcpOperations, key \in 1..MaxTcpOperations :
        (TimeoutElapsedOnSilentServer /\ cl.n = n /\ cl.op.key = key)
        ~> CompletedTimedOut(n, key)
====
